---- MODULE Spec2Model ----
(***************************************************************************)
(* Fee harvesting scripts of the uniswap-v4-lp skill, as state machines:   *)
(*   CH   clanker-harvest.mjs        (src/unnamed/part_003, lines 1-584)   *)
(*   CAH  compound-and-harvest.mjs   (src/unnamed/part_003, lines 586-1385)*)
(*   BP   burn-position.mjs          (burn-position.mjs, lines 1-222)      *)
(*   CCF  claim-clanker-fees.mjs     (burn-position.mjs, lines 224-375)    *)
(* One run of a script is one pass of its main(); pc is the position of    *)
(* main() between two awaited transactions.  The chain is the environment: *)
(* every transaction the script sends either throws before it is mined     *)
(* ("throw": writeContract rejects), is mined and succeeds ("ok"), or is   *)
(* mined with a reverted receipt ("reverted": waitForTransactionReceipt    *)
(* returns normally, with status 'reverted').                              *)
(*                                                                         *)
(* Amounts are BigInts in the scripts; the model keeps them small enough   *)
(* for 32-bit arithmetic and scales the Q96 fixed point to 2^QBits.        *)
(***************************************************************************)
EXTENDS Integers, Sequences, FiniteSets, TLC

VARIABLES
  script,    \* which script this process runs
  cfg,       \* its configuration (CLI flags / config file)
  chain,     \* on-chain state: fee escrow, position, wallet balances, vault
  pc,        \* position of main()
  ch,        \* locals of clanker-harvest main()
  cah,       \* locals of compound-and-harvest main()
  ccf,       \* locals of claim-clanker-fees main()
  txs,       \* mutating calls issued by the current run, in order
  exitCode,  \* -1 while running, then the process exit status
  run,       \* 1 for the first run, 2 for the run that follows it
  dry,       \* locals of the run that preceded the current run
  rt,        \* locals of one call of the retry helper
  inst,      \* locals of two harvest instances that share one wallet
  au         \* the security audit: its flags, the files it meets, its results

vars ==
  <<script, cfg, chain, pc, ch, cah, ccf, txs, exitCode, run, dry, rt, inst, au>>

---------------------------------------------------------------------------
(* Bounds of the model *)

AmtSmall == 7
AmtBig == 100
UsdcInit == 5
MinUsdHi == 250
EthPrice == 2
TokenPrice == 1
QBits == 4
MaxRuns == 2
MaxErrs == 5

CompoundPcts == {0, 50, 100, 150}
Slippages == {1}
Ticks == {0, 1}
Outcomes == {"ok", "reverted", "throw"}

---------------------------------------------------------------------------
(* Arithmetic helpers *)

Min(a, b) == IF a < b THEN a ELSE b
Max(a, b) == IF a > b THEN a ELSE b

\* BigInt division truncates toward zero; b > 0 here (a zero divisor throws
\* a RangeError, which the callers model through the *Throws predicates).
BigIntDiv(a, b) == IF a >= 0 THEN a \div b ELSE -((-a) \div b)

Pow2(n) == 2 ^ n

Q96 == Pow2(QBits)

\* tickToSqrtPriceX96: monotone in the tick, Q96 at tick 0.  The tick base is
\* scaled from 1.0001 to 4 so that neighbouring ticks differ in narrow integers.
tickToSqrtPriceX96(tick) ==
  IF tick >= 0 THEN Q96 * Pow2(tick) ELSE Q96 \div Pow2(-tick)

\* The square-root prices getSlot0 may return: below, at, inside (at several
\* points) and above the ranges the ticks of Ticks span.
SqrtPrices ==
  {Q96 \div 2, Q96, (5 * Q96) \div 4, (11 * Q96) \div 8, (3 * Q96) \div 2, 2 * Q96, 3 * Q96}

---------------------------------------------------------------------------
(* The chain: what the contracts do when a transaction is mined and succeeds *)

Currencies == {"WETH", "TOKEN"}
Other(c) == IF c = "WETH" THEN "TOKEN" ELSE "WETH"
\* The ERC-20 whose wallet balance a pool currency is held in: the pool's
\* currency that is not WETH is CONTRACTS.USDC itself when the position is a
\* WETH/USDC one.
AddressOf(c, t) == IF t = "TOKEN" /\ c.tokenIsUsdc THEN "USDC" ELSE t

Permit2Approvals == {<<"WETH", "PERMIT2">>, <<"TOKEN", "PERMIT2">>}
AllApprovals == Permit2Approvals \cup
                {<<"WETH", "SWAP_ROUTER">>, <<"TOKEN", "UNIVERSAL_ROUTER">>}

Tx(fn, tok, amt, st) == [fn |-> fn, tok |-> tok, amt |-> amt, st |-> st]

\* exactInputSingle({..., amountIn, amountOutMinimum: 0n, ...}) and the V4_SWAP
\* parameters (..., amount, '0', ...): the minimum output the swap carries
amountOutMinimum(amountIn, slippage) == 0
SwapTx(fn, tok, amt, slippage, st) ==
  [fn |-> fn, tok |-> tok, amt |-> amt, st |-> st,
   minOut |-> amountOutMinimum(amt, slippage)]

\* Clanker fee escrow, claim(feeOwner, token): pays what is available.
ClaimEffect(c, tok) ==
  [c EXCEPT !.bal[tok] = @ + c.fees[tok], !.fees[tok] = 0]

\* the liquidity field of decreaseParams: '0'.padStart(64, '0')
CollectDecreaseAll(c) == c.posLiq
CollectDecrease(c) == 0

\* Position manager, DECREASE by 0 + CLOSE_CURRENCY x2: pays the accrued fees.
CollectEffect(c) ==
  [c EXCEPT !.posLiq = @ - CollectDecrease(c),
            !.bal["WETH"] = @ + c.posFees["WETH"],
            !.bal[AddressOf(c, "TOKEN")] = @ + c.posFees["TOKEN"],
            !.posFees = [t \in Currencies |-> 0]]

\* Position manager, INCREASE + SETTLE_PAIR: takes the amounts from the wallet.
IncreaseEffect(c, liquidity, used0, used1) ==
  [c EXCEPT !.posLiq = @ + liquidity,
            !.bal[AddressOf(c, c.c0)] = @ - used0,
            !.bal[AddressOf(c, Other(c.c0))] = @ - used1]

\* SwapRouter02 exactInputSingle WETH -> USDC.
SwapEffect(c, amountIn) ==
  [c EXCEPT !.bal["WETH"] = @ - amountIn, !.bal["USDC"] = @ + amountIn * EthPrice]

\* Universal Router V4_SWAP token -> WETH.
V4SwapEffect(c, amountIn) ==
  [c EXCEPT !.bal["TOKEN"] = @ - amountIn,
            !.bal["WETH"] = @ + (amountIn * TokenPrice) \div EthPrice]

\* USDC transfer(vault, amount).
TransferEffect(c, amount) ==
  [c EXCEPT !.bal["USDC"] = @ - amount, !.vault = @ + amount]

\* BURN_POSITION + TAKE_PAIR: pays liquidity and fees out, the position is gone.
BurnEffect(c) ==
  [c EXCEPT !.posLiq = 0, !.owned = FALSE,
            !.bal["WETH"] = @ + c.posFees["WETH"],
            !.bal["TOKEN"] = @ + c.posFees["TOKEN"],
            !.posFees = [t \in Currencies |-> 0]]

\* A transaction that the chain cannot execute is never mined with success.
TxOutcomes(feasible) == IF feasible THEN Outcomes ELSE Outcomes \ {"ok"}
ApproveOutcomes == {"ok", "throw"}

---------------------------------------------------------------------------
(* Sequential code with awaited transactions: st = [chain, txs, threw] is   *)
(* threaded through the statements; once threw, the rest is skipped.        *)

St(c, t) == [chain |-> c, txs |-> t, threw |-> FALSE]

\* the transactions submitted and not yet waited for
Pending(t) == {i \in 1..Len(t) : t[i].st # "throw" /\ ~t[i].waited}

\* const tx = await wallet.writeContract(...): the transaction is submitted, or
\* the call rejects.  The record notes how many earlier ones were still pending.
WriteContract(st, tx) ==
  [st EXCEPT !.txs = Append(@, [f \in DOMAIN tx \cup {"waited", "pendingBefore"} |->
                                 IF f = "waited" THEN FALSE
                                 ELSE IF f = "pendingBefore"
                                 THEN Cardinality(Pending(st.txs))
                                 ELSE tx[f]]),
             !.threw = tx.st = "throw"]

\* await pub.waitForTransactionReceipt({ hash: tx }): returns once the last
\* transaction is mined; from then on reads see its effect.
NoWait(st, newChain) == st
WaitForTransactionReceipt(st, newChain) ==
  LET k == Len(st.txs)
  IN [st EXCEPT !.txs[k].waited = TRUE,
                !.chain = IF st.txs[k].st = "ok" THEN newChain ELSE @]

\* wallet.writeContract + pub.waitForTransactionReceipt
Send(st, tx, newChain) ==
  IF st.threw THEN st
  ELSE LET w == WriteContract(st, tx)
       IN IF w.threw THEN w ELSE WaitForTransactionReceipt(w, newChain)

\* some transaction sent between the states before and after did not succeed
SomeFailed(before, after) ==
  \E i \in (Len(before.txs) + 1)..Len(after.txs) : after.txs[i].st # "ok"

\* allowance check, then approve(spender, maxUint256) when it is insufficient
Approve(st, tok, spender, o) ==
  IF st.threw \/ <<tok, spender>> \in st.chain.approved THEN st
  ELSE Send(st, Tx("approve", tok, 0, o),
            [st.chain EXCEPT !.approved = @ \cup {<<tok, spender>>}])

---------------------------------------------------------------------------
(* clanker-harvest.mjs *)

\* compoundPct: parseInt(getArg('compound-pct', config.compoundPct ?? '100'))
DefaultCompoundPct == 100
UnsetPctIsDefault == cfg.pctGiven \/ cfg.compoundPct = DefaultCompoundPct

harvestPct == 100 - cfg.compoundPct
wantCompound == cfg.compoundPct > 0 /\ cfg.tokenId
wantHarvest == harvestPct > 0 /\ cfg.harvestAddress

NoCalc == [done |-> FALSE, threw |-> FALSE, sqrtPriceX96 |-> 0, sqrtLower |-> 0,
           sqrtUpper |-> 0, amount0 |-> 0, amount1 |-> 0, liquidity |-> 0,
           priceNow |-> 0]
NoResult == [set |-> FALSE, totalUsd |-> 0, compounded |-> 0, harvested |-> 0,
             belowThreshold |-> FALSE]

\* main()'s locals before its first statement
ch0 == [availWeth |-> 0, availToken |-> 0, claimedWeth |-> 0, claimedToken |-> 0,
        lpWeth |-> 0, lpToken |-> 0, totalWeth |-> 0, totalToken |-> 0,
        totalUsd |-> 0, split |-> FALSE, compoundWeth |-> 0, compoundToken |-> 0,
        harvestWeth |-> 0, harvestToken |-> 0, calc |-> NoCalc, compoundLog |-> "",
        swapLog |-> "", swapFailed |-> FALSE,
        usdcBefore |-> 0, harvestedUsdc |-> 0, summary |-> FALSE, result |-> NoResult]

\* parseFloat(formatEther(weth)) * ethPrice + parseFloat(formatEther(token)) * tokenPrice
UsdValue(weth, token) == weth * EthPrice + token * TokenPrice

\* Split: compound = total * BigInt(compoundPct) / 100n, harvest = total - compound
SplitCompound(total, pct) == BigIntDiv(total * pct, 100)
SplitHarvestByPct(total, pct) == BigIntDiv(total * (100 - pct), 100)
SplitHarvest(total, pct) == total - SplitCompound(total, pct)

\* harvestedUsdc = usdcAfter - usdcBefore
UsdcWholeBalance(usdcAfter, usdcBefore) == usdcAfter
UsdcDelta(usdcAfter, usdcBefore) == usdcAfter - usdcBefore

\* The inline liquidity-from-amounts of the Compound step: a zero divisor throws.
InlineLiquidityThrows(sqrtPriceX96, sqrtLower, sqrtUpper) ==
  IF sqrtPriceX96 <= sqrtLower THEN (sqrtUpper - sqrtLower) * Q96 = 0
  ELSE IF sqrtPriceX96 >= sqrtUpper THEN sqrtUpper - sqrtLower = 0
  ELSE (sqrtUpper - sqrtPriceX96) * Q96 = 0 \/ sqrtPriceX96 - sqrtLower = 0

\* liquidity = liq0 < liq1 ? liq0 : liq1
BindingLarger(l0, l1) == IF l0 > l1 THEN l0 ELSE l1
Binding(l0, l1) == IF l0 < l1 THEN l0 ELSE l1
InlineLiquidity(sqrtPriceX96, sqrtLower, sqrtUpper, amount0, amount1) ==
  IF sqrtPriceX96 <= sqrtLower
  THEN BigIntDiv(amount0 * sqrtLower * sqrtUpper, (sqrtUpper - sqrtLower) * Q96)
  ELSE IF sqrtPriceX96 >= sqrtUpper
  THEN BigIntDiv(amount1 * Q96, sqrtUpper - sqrtLower)
  ELSE Binding(BigIntDiv(amount0 * sqrtPriceX96 * sqrtUpper,
                         (sqrtUpper - sqrtPriceX96) * Q96),
               BigIntDiv(amount1 * Q96, sqrtPriceX96 - sqrtLower))

\* if (liquidity <= 0n) skip, else send the increase
CompoundSkipsNegative(liquidity) == liquidity < 0
CompoundSkipsLiquidity(liquidity) == liquidity <= 0

\* BigInt(Math.floor((100 + cfg.slippage * 2) * 100))
slippageMulAt(slippage) == (100 + slippage * 2) * 100
AmountMaxAt(amount, slippage) == BigIntDiv(amount * slippageMulAt(slippage), 10000)
slippageMul == slippageMulAt(cfg.slippage)
AmountMax(amount) == AmountMaxAt(amount, cfg.slippage)

\* main().catch: print, process.exit(1)
Fatal == pc' = "done" /\ exitCode' = 1

\* if (!cfg.skipClaim)
ClaimStepRunsAlways == TRUE
ClaimStepRuns == ~cfg.skipClaim

\* Step 1, the availability read and the branch on it
CH_Claim ==
  /\ script = "CH" /\ pc = "start"
  /\ IF ~ClaimStepRuns
     THEN pc' = "collect" /\ ch' = ch
     ELSE LET availWeth == chain.fees["WETH"]
              availToken == chain.fees["TOKEN"]
          IN IF availWeth = 0 /\ availToken = 0
             THEN pc' = "collect" /\ ch' = ch
             ELSE IF cfg.dryRun
             THEN /\ pc' = "collect"
                  /\ ch' = [ch EXCEPT !.claimedWeth = availWeth,
                                      !.claimedToken = availToken]
             ELSE /\ pc' = "claimToken"
                  /\ ch' = [ch EXCEPT !.availWeth = availWeth,
                                      !.availToken = availToken]
  /\ UNCHANGED <<au, inst, rt, script, cfg, chain, cah, ccf, txs, exitCode, run, dry>>

\* if (availToken > 0n) claim, if (availWeth > 0n) claim
ClaimsAlways(avail) == TRUE
Claims(avail) == avail > 0

\* Step 1, claim(account, cfg.token); the receipt's status is not read
CH_ClaimToken ==
  /\ script = "CH" /\ pc = "claimToken"
  /\ IF Claims(ch.availToken)
     THEN \E o \in Outcomes :
            LET st == Send(St(chain, txs), Tx("claim", "TOKEN", ch.availToken, o),
                           ClaimEffect(chain, "TOKEN"))
            IN /\ chain' = st.chain /\ txs' = st.txs
               /\ IF st.threw
                  THEN Fatal /\ ch' = ch
                  ELSE /\ pc' = "claimWeth" /\ exitCode' = exitCode
                       /\ ch' = [ch EXCEPT !.claimedToken = ch.availToken]
     ELSE pc' = "claimWeth" /\ UNCHANGED <<chain, txs, ch, exitCode>>
  /\ UNCHANGED <<au, inst, rt, script, cfg, cah, ccf, run, dry>>

\* Step 1, claim(account, WETH)
CH_ClaimWeth ==
  /\ script = "CH" /\ pc = "claimWeth"
  /\ IF Claims(ch.availWeth)
     THEN \E o \in Outcomes :
            LET st == Send(St(chain, txs), Tx("claim", "WETH", ch.availWeth, o),
                           ClaimEffect(chain, "WETH"))
            IN /\ chain' = st.chain /\ txs' = st.txs
               /\ IF st.threw
                  THEN Fatal /\ ch' = ch
                  ELSE /\ pc' = "collect" /\ exitCode' = exitCode
                       /\ ch' = [ch EXCEPT !.claimedWeth = ch.availWeth]
     ELSE pc' = "collect" /\ UNCHANGED <<chain, txs, ch, exitCode>>
  /\ UNCHANGED <<au, inst, rt, script, cfg, cah, ccf, run, dry>>

\* Step 2 sends its transactions when a position is configured, LP collection
\* is not skipped and the run is live.
CH_CollectSendsAlways == ~cfg.skipLp /\ cfg.tokenId
CH_CollectSends == ~cfg.skipLp /\ cfg.tokenId /\ ~cfg.dryRun

\* lpWeth = wethAfter - wethBefore, fees0 = token0After - token0Before
BalanceAfter(after, before) == after
BalanceDelta(after, before) == after - before

\* Step 2: snapshot, Permit2 approvals, modifyLiquidities(collect), measure
CH_Collect ==
  /\ script = "CH" /\ pc = "collect"
  /\ IF CH_CollectSends
     THEN \E o0 \in ApproveOutcomes, o1 \in ApproveOutcomes, o \in Outcomes :
            LET wethBefore == chain.bal["WETH"]
                tokenBefore == chain.bal["TOKEN"]
                a0 == Approve(St(chain, txs), chain.c0, "PERMIT2", o0)
                a1 == Approve(a0, Other(chain.c0), "PERMIT2", o1)
                st == Send(a1, Tx("collect", "LP", 0, o), CollectEffect(a1.chain))
            IN /\ o \in TxOutcomes(chain.owned)
               /\ chain' = st.chain /\ txs' = st.txs
               /\ IF st.threw
                  THEN Fatal /\ ch' = ch
                  ELSE /\ pc' = "total" /\ exitCode' = exitCode
                       /\ ch' = [ch EXCEPT
                                   !.lpWeth = BalanceDelta(st.chain.bal["WETH"], wethBefore),
                                   !.lpToken = BalanceDelta(st.chain.bal["TOKEN"], tokenBefore)]
     ELSE pc' = "total" /\ UNCHANGED <<chain, txs, ch, exitCode>>
  /\ UNCHANGED <<au, inst, rt, script, cfg, cah, ccf, run, dry>>

\* if (cfg.minUsd > 0 && totalUsd < cfg.minUsd)
BelowThresholdInverted(totalUsd) == cfg.minUsd > 0 /\ totalUsd > cfg.minUsd
BelowThreshold(totalUsd) == cfg.minUsd > 0 /\ totalUsd < cfg.minUsd

\* if (totalWeth === 0n && totalToken === 0n) return
NothingToProcessNever(totalWeth, totalToken) == FALSE
NothingToProcess(totalWeth, totalToken) == totalWeth = 0 /\ totalToken = 0

\* Total, the two early returns, and the Split
CH_Total ==
  /\ script = "CH" /\ pc = "total"
  /\ LET totalWeth == ch.claimedWeth + ch.lpWeth
         totalToken == ch.claimedToken + ch.lpToken
         totalUsd == UsdValue(totalWeth, totalToken)
         tot == [ch EXCEPT !.totalWeth = totalWeth, !.totalToken = totalToken,
                           !.totalUsd = totalUsd]
     IN IF NothingToProcess(totalWeth, totalToken)
        THEN /\ pc' = "done" /\ exitCode' = 0
             /\ ch' = [tot EXCEPT !.result = [NoResult EXCEPT !.set = TRUE]]
        ELSE IF BelowThreshold(totalUsd)
        THEN /\ pc' = "done" /\ exitCode' = 0
             /\ ch' = [tot EXCEPT !.result = [NoResult EXCEPT !.set = TRUE,
                                    !.totalUsd = totalUsd, !.belowThreshold = TRUE]]
        ELSE /\ pc' = "compound" /\ exitCode' = exitCode
             /\ ch' = [tot EXCEPT
                  !.split = TRUE,
                  !.compoundWeth = SplitCompound(totalWeth, cfg.compoundPct),
                  !.compoundToken = SplitCompound(totalToken, cfg.compoundPct),
                  !.harvestWeth = SplitHarvest(totalWeth, cfg.compoundPct),
                  !.harvestToken = SplitHarvest(totalToken, cfg.compoundPct)]
  /\ UNCHANGED <<au, inst, rt, script, cfg, chain, cah, ccf, txs, run, dry>>

\* What the pool takes from the wallet for `liquidity` at the current price
\* (rounded up), token0 above the price and token1 below it.
CeilDiv(a, b) == (a + b - 1) \div b
Used0(liquidity, sqrtPriceX96, sqrtLower, sqrtUpper) ==
  LET p == Max(sqrtPriceX96, sqrtLower)
  IN IF sqrtPriceX96 >= sqrtUpper THEN 0
     ELSE CeilDiv(liquidity * Q96 * (sqrtUpper - p), p * sqrtUpper)
Used1(liquidity, sqrtPriceX96, sqrtLower, sqrtUpper) ==
  LET p == Min(sqrtPriceX96, sqrtUpper)
  IN IF sqrtPriceX96 <= sqrtLower THEN 0
     ELSE CeilDiv(liquidity * (p - sqrtLower), Q96)

\* The position manager executes INCREASE + SETTLE_PAIR only within the maxima,
\* the wallet's balances and its Permit2 approvals.
CanIncrease(c, used0, used1, amount0Max, amount1Max) ==
  /\ used0 <= amount0Max /\ used1 <= amount1Max
  /\ used0 <= c.bal[AddressOf(c, c.c0)]
  /\ used1 <= c.bal[AddressOf(c, Other(c.c0))]
  /\ (used0 > 0 => <<c.c0, "PERMIT2">> \in c.approved)
  /\ (used1 > 0 => <<Other(c.c0), "PERMIT2">> \in c.approved)

\* Step 3: the try block of the Compound step; its catch logs and goes on
CH_Compound ==
  /\ script = "CH" /\ pc = "compound"
  /\ pc' = "swap"
  /\ IF wantCompound /\ (ch.compoundWeth > 0 \/ ch.compoundToken > 0)
     THEN IF cfg.dryRun
          THEN ch' = [ch EXCEPT !.compoundLog = "would"] /\ UNCHANGED <<chain, txs>>
          ELSE \E sqrtPriceX96 \in SqrtPrices, tL \in Ticks, tU \in Ticks, o \in Outcomes :
            LET sqrtLower == tickToSqrtPriceX96(Min(tL, tU))
                sqrtUpper == tickToSqrtPriceX96(Max(tL, tU))
                isWethCurrency0 == chain.c0 = "WETH"
                amount0 == IF isWethCurrency0 THEN ch.compoundWeth ELSE ch.compoundToken
                amount1 == IF isWethCurrency0 THEN ch.compoundToken ELSE ch.compoundWeth
                threw == InlineLiquidityThrows(sqrtPriceX96, sqrtLower, sqrtUpper)
                liquidity == IF threw THEN 0
                             ELSE InlineLiquidity(sqrtPriceX96, sqrtLower, sqrtUpper,
                                                  amount0, amount1)
                calc == [done |-> TRUE, threw |-> threw, sqrtPriceX96 |-> sqrtPriceX96,
                         sqrtLower |-> sqrtLower, sqrtUpper |-> sqrtUpper,
                         amount0 |-> amount0, amount1 |-> amount1,
                         liquidity |-> liquidity, priceNow |-> sqrtPriceX96]
                used0 == Used0(liquidity, sqrtPriceX96, sqrtLower, sqrtUpper)
                used1 == Used1(liquidity, sqrtPriceX96, sqrtLower, sqrtUpper)
                st == Send(St(chain, txs), Tx("increase", "LP", liquidity, o),
                           IncreaseEffect(chain, liquidity, used0, used1))
            IN IF threw
               THEN /\ ch' = [ch EXCEPT !.calc = calc, !.compoundLog = "failed"]
                    /\ UNCHANGED <<chain, txs>>
               ELSE IF CompoundSkipsLiquidity(liquidity)
               THEN /\ ch' = [ch EXCEPT !.calc = calc, !.compoundLog = "zero"]
                    /\ UNCHANGED <<chain, txs>>
               ELSE /\ o \in TxOutcomes(CanIncrease(chain, used0, used1,
                                          AmountMax(amount0), AmountMax(amount1)))
                    /\ chain' = st.chain /\ txs' = st.txs
                    /\ ch' = [ch EXCEPT !.calc = calc,
                                !.compoundLog = IF st.threw THEN "failed" ELSE "compounded"]
     ELSE UNCHANGED <<chain, txs, ch>>
  /\ UNCHANGED <<au, inst, rt, script, cfg, cah, ccf, exitCode, run, dry>>

\* Step 4: usdcBefore, the WETH swap in its try/catch, usdcAfter.  The token
\* swap is not implemented: the token share stays in the wallet.
CH_Swap ==
  /\ script = "CH" /\ pc = "swap"
  /\ IF wantHarvest /\ (ch.harvestWeth > 0 \/ ch.harvestToken > 0)
     THEN /\ pc' = "transfer"
          /\ LET usdcBefore == chain.bal["USDC"]
                 left == [ch EXCEPT !.calc = NoCalc, !.usdcBefore = usdcBefore]
             IN IF cfg.dryRun \/ ch.harvestWeth <= 0
                THEN /\ ch' = [left EXCEPT !.harvestedUsdc = 0]
                     /\ UNCHANGED <<chain, txs>>
                ELSE \E oa \in ApproveOutcomes, o \in Outcomes :
                       LET a == Approve(St(chain, txs), "WETH", "SWAP_ROUTER", oa)
                           st == Send(a, SwapTx("swap", "WETH", ch.harvestWeth, cfg.slippage, o),
                                      SwapEffect(a.chain, ch.harvestWeth))
                       IN /\ o \in TxOutcomes(chain.bal["WETH"] >= ch.harvestWeth)
                          /\ chain' = st.chain /\ txs' = st.txs
                          /\ ch' = [left EXCEPT
                                !.swapLog = IF st.threw THEN "failed" ELSE "ok",
                                !.swapFailed = SomeFailed(St(chain, txs), st),
                                !.harvestedUsdc =
                                    UsdcDelta(st.chain.bal["USDC"], usdcBefore)]
     ELSE /\ pc' = "summary"
          /\ ch' = [ch EXCEPT !.calc = NoCalc]
          /\ UNCHANGED <<chain, txs>>
  /\ UNCHANGED <<au, inst, rt, script, cfg, cah, ccf, exitCode, run, dry>>

\* Step 5: transfer(harvestAddress, harvestedUsdc); the receipt's status is not read
CH_Transfer ==
  /\ script = "CH" /\ pc = "transfer"
  /\ IF ch.harvestedUsdc > 0 /\ ~cfg.dryRun
     THEN \E o \in Outcomes :
            LET st == Send(St(chain, txs), Tx("transfer", "USDC", ch.harvestedUsdc, o),
                           TransferEffect(chain, ch.harvestedUsdc))
            IN /\ o \in TxOutcomes(chain.bal["USDC"] >= ch.harvestedUsdc)
               /\ chain' = st.chain /\ txs' = st.txs
               /\ IF st.threw THEN Fatal
                  ELSE pc' = "summary" /\ exitCode' = exitCode
     ELSE pc' = "summary" /\ UNCHANGED <<chain, txs, exitCode>>
  /\ UNCHANGED <<au, inst, rt, script, cfg, ch, cah, ccf, run, dry>>

\* Summary and the returned result
CH_Summary ==
  /\ script = "CH" /\ pc = "summary"
  /\ pc' = "done" /\ exitCode' = 0
  /\ ch' = [ch EXCEPT !.summary = TRUE,
                       !.result = [set |-> TRUE, totalUsd |-> ch.totalUsd,
                                  compounded |-> cfg.compoundPct,
                                  harvested |-> ch.harvestedUsdc,
                                  belowThreshold |-> FALSE]]
  /\ UNCHANGED <<au, inst, rt, script, cfg, chain, cah, ccf, txs, run, dry>>

\* The operator previews with --dry-run, then runs the same command live.
CH_Rerun ==
  /\ script = "CH" /\ pc = "done" /\ cfg.dryRun /\ run < MaxRuns
  /\ run' = run + 1
  /\ dry' = ch
  /\ cfg' = [cfg EXCEPT !.dryRun = FALSE]
  /\ ch' = ch0 /\ txs' = <<>> /\ pc' = "start" /\ exitCode' = -1
  /\ UNCHANGED <<au, inst, rt, script, chain, cah, ccf>>

\* the run's only failure is its vault transfer, the last call it made
TransferFailed ==
  /\ pc = "done" /\ ~cfg.dryRun /\ txs # <<>>
  /\ txs[Len(txs)].fn = "transfer" /\ txs[Len(txs)].st # "ok"
  /\ \A i \in 1..(Len(txs) - 1) : txs[i].st = "ok"

\* After a failed vault transfer the operator runs the same command again;
\* new Clanker fees may have accrued in between.
CH_RunAgain ==
  /\ script = "CH" /\ run = 1 /\ TransferFailed
  /\ \E accrued \in {0, AmtBig} :
       chain' = [chain EXCEPT !.fees["WETH"] = @ + accrued]
  /\ run' = run + 1
  /\ dry' = ch
  /\ ch' = ch0 /\ txs' = <<>> /\ pc' = "start" /\ exitCode' = -1
  /\ UNCHANGED <<au, inst, rt, script, cfg, cah, ccf>>

---------------------------------------------------------------------------
(* compound-and-harvest.mjs *)

cah0 == [sqrtPriceX96 |-> 0, sqrtLower |-> 0, sqrtUpper |-> 0,
         token0Before |-> 0, token1Before |-> 0, fees0 |-> 0, fees1 |-> 0,
         split |-> FALSE, compound0 |-> 0, compound1 |-> 0,
         harvest0 |-> 0, harvest1 |-> 0, calc |-> NoCalc, compoundLog |-> "",
         swap0Log |-> "", swap0Failed |-> FALSE,
         swap1Log |-> "", swap1Failed |-> FALSE,
         usdcBefore |-> 0, usdcHarvested |-> 0, summary |-> FALSE]

\* Math.max(0, Math.min(100, argv.compoundPct))
compoundPct == Max(0, Min(100, cfg.compoundPct))

TickRanges == {r \in Ticks \X Ticks : r[1] < r[2]}

liq0(a0, sqrtA, sqrtB) == BigIntDiv(a0 * BigIntDiv(sqrtA * sqrtB, Q96), sqrtB - sqrtA)
liq1(a1, sqrtA, sqrtB) == BigIntDiv(a1 * Q96, sqrtB - sqrtA)

getLiquidityForAmounts(sqrtPriceX96, sqrtPriceA, sqrtPriceB, amount0, amount1) ==
  LET sqrtA == Min(sqrtPriceA, sqrtPriceB)
      sqrtB == Max(sqrtPriceA, sqrtPriceB)
  IN IF sqrtPriceX96 <= sqrtA THEN liq0(amount0, sqrtA, sqrtB)
     ELSE IF sqrtPriceX96 < sqrtB
     THEN Binding(liq0(amount0, sqrtPriceX96, sqrtB), liq1(amount1, sqrtA, sqrtPriceX96))
     ELSE liq1(amount1, sqrtA, sqrtB)

\* the divisor of the case taken is zero: BigInt division throws a RangeError
getLiquidityForAmountsThrows(sqrtPriceX96, sqrtPriceA, sqrtPriceB) ==
  LET sqrtA == Min(sqrtPriceA, sqrtPriceB)
      sqrtB == Max(sqrtPriceA, sqrtPriceB)
  IN IF sqrtPriceX96 <= sqrtA \/ sqrtPriceX96 >= sqrtB THEN sqrtB - sqrtA = 0
     ELSE sqrtB - sqrtPriceX96 = 0 \/ sqrtPriceX96 - sqrtA = 0

\* addLiquidity: if (newLiquidity <= 0n) return { success: false }
AddLiquiditySkips(newLiquidity) == newLiquidity <= 0

\* amount0Max = amount0 > 0n ? amount0 * 150n / 100n : 0n
AddAmountMax(amount) == IF amount > 0 THEN BigIntDiv(amount * 150, 100) ELSE 0

\* process.exit(code)
Exit(code) == pc' = "done" /\ exitCode' = code

\* Verify ownership, position info, pool state, balances before, dry run
CAH_Start ==
  /\ script = "CAH" /\ pc = "start"
  /\ IF ~chain.owned THEN Exit(1) /\ cah' = cah
     ELSE IF chain.posLiq = 0 THEN Exit(0) /\ cah' = cah
     ELSE \E sqrtPriceX96 \in SqrtPrices, r \in TickRanges :
            /\ cah' = [cah EXCEPT !.sqrtPriceX96 = sqrtPriceX96,
                                  !.sqrtLower = tickToSqrtPriceX96(Min(r[1], r[2])),
                                  !.sqrtUpper = tickToSqrtPriceX96(Max(r[1], r[2])),
                                  !.token0Before =
                                     chain.bal[AddressOf(chain, chain.c0)],
                                  !.token1Before =
                                     chain.bal[AddressOf(chain, Other(chain.c0))]]
            /\ IF cfg.dryRun THEN Exit(0)
               ELSE pc' = "collect" /\ exitCode' = exitCode
  /\ UNCHANGED <<au, inst, rt, script, cfg, chain, ch, ccf, txs, run, dry>>

\* Step 1 collectFees, Step 2 measure, Step 3 split
CAH_Collect ==
  /\ script = "CAH" /\ pc = "collect"
  /\ \E o \in Outcomes :
       LET st == Send(St(chain, txs), Tx("collect", "LP", 0, o), CollectEffect(chain))
           fees0 == BalanceDelta(st.chain.bal[AddressOf(chain, chain.c0)],
                                 cah.token0Before)
           fees1 == BalanceDelta(st.chain.bal[AddressOf(chain, Other(chain.c0))],
                                 cah.token1Before)
       IN /\ chain' = st.chain /\ txs' = st.txs
          /\ IF st.threw \/ o # "ok" THEN Exit(1) /\ cah' = cah
             ELSE IF fees0 <= 0 /\ fees1 <= 0
             THEN Exit(0) /\ cah' = [cah EXCEPT !.fees0 = fees0, !.fees1 = fees1]
             ELSE /\ pc' = "compound" /\ exitCode' = exitCode
                  /\ cah' = [cah EXCEPT
                       !.fees0 = fees0, !.fees1 = fees1, !.split = TRUE,
                       !.compound0 = SplitCompound(fees0, compoundPct),
                       !.compound1 = SplitCompound(fees1, compoundPct),
                       !.harvest0 = SplitHarvest(fees0, compoundPct),
                       !.harvest1 = SplitHarvest(fees1, compoundPct)]
  /\ UNCHANGED <<au, inst, rt, script, cfg, ch, ccf, run, dry>>

\* addLiquidity (not inside a try), then the "nothing to harvest" exit.  It is
\* given the sqrtPriceX96 that main() read before the collection; priceNow is
\* the pool's price when addLiquidity runs.
CAH_Compound ==
  /\ script = "CAH" /\ pc = "compound"
  /\ IF cah.compound0 > 0 \/ cah.compound1 > 0
     THEN \E oa \in ApproveOutcomes, o \in Outcomes, priceNow \in SqrtPrices :
       LET amount0 == cah.compound0
           amount1 == cah.compound1
           threw == getLiquidityForAmountsThrows(cah.sqrtPriceX96, cah.sqrtLower,
                                                 cah.sqrtUpper)
           newLiquidity == IF threw THEN 0
                           ELSE getLiquidityForAmounts(cah.sqrtPriceX96, cah.sqrtLower,
                                                  cah.sqrtUpper, amount0, amount1)
           calc == [done |-> TRUE, threw |-> threw, sqrtPriceX96 |-> cah.sqrtPriceX96,
                    sqrtLower |-> cah.sqrtLower, sqrtUpper |-> cah.sqrtUpper,
                    amount0 |-> amount0, amount1 |-> amount1,
                    liquidity |-> newLiquidity, priceNow |-> priceNow]
           a0 == IF amount0 <= 0 THEN St(chain, txs)
                 ELSE Approve(St(chain, txs), chain.c0, "PERMIT2", oa)
           a1 == IF amount1 <= 0 THEN a0
                 ELSE Approve(a0, Other(chain.c0), "PERMIT2", oa)
           used0 == Used0(newLiquidity, priceNow, cah.sqrtLower, cah.sqrtUpper)
           used1 == Used1(newLiquidity, priceNow, cah.sqrtLower, cah.sqrtUpper)
           st == Send(a1, Tx("increase", "LP", newLiquidity, o),
                      IncreaseEffect(a1.chain, newLiquidity, used0, used1))
       IN IF threw
          THEN Exit(1) /\ cah' = [cah EXCEPT !.calc = calc] /\ UNCHANGED <<chain, txs>>
          ELSE IF AddLiquiditySkips(newLiquidity)
          THEN /\ cah' = [cah EXCEPT !.calc = calc, !.compoundLog = "failed"]
               /\ UNCHANGED <<chain, txs>>
               /\ IF cah.harvest0 <= 0 /\ cah.harvest1 <= 0 THEN Exit(0)
                  ELSE pc' = "swap0" /\ exitCode' = exitCode
          ELSE /\ o \in TxOutcomes(CanIncrease(a1.chain, used0, used1,
                                     AddAmountMax(amount0), AddAmountMax(amount1)))
               /\ chain' = st.chain /\ txs' = st.txs
               /\ cah' = [cah EXCEPT !.calc = calc,
                            !.compoundLog = IF st.threw THEN ""
                                            ELSE IF o = "ok" THEN "compounded"
                                            ELSE "failed"]
               /\ IF st.threw THEN Exit(1)
                  ELSE IF cah.harvest0 <= 0 /\ cah.harvest1 <= 0 THEN Exit(0)
                  ELSE pc' = "swap0" /\ exitCode' = exitCode
     ELSE /\ UNCHANGED <<chain, txs, cah>>
          /\ IF cah.harvest0 <= 0 /\ cah.harvest1 <= 0 THEN Exit(0)
             ELSE pc' = "swap0" /\ exitCode' = exitCode
  /\ UNCHANGED <<au, inst, rt, script, cfg, ch, ccf, run, dry>>

\* wethGained = wethAfter - wethBefore
WethBalanceAfter(wethAfter, wethBefore) == wethAfter
WethGained(wethAfter, wethBefore) == wethAfter - wethBefore

\* swapToUsdc(tokenAddress, amount): WETH goes straight to USDC; another token
\* goes to WETH through the V4 pool, and the WETH gained goes on to USDC.
\* The result's threw is the exception the caller's try catches.
swapToUsdc(st, tokenAddress, amount, oa, o1, o2) ==
  IF amount <= 0 THEN st
  ELSE IF tokenAddress = "USDC" THEN st
  ELSE IF tokenAddress = "WETH"
  THEN LET a == Approve(st, "WETH", "SWAP_ROUTER", oa)
           ok == IF a.chain.bal["WETH"] >= amount THEN o2
                 ELSE IF o2 = "ok" THEN "reverted" ELSE o2
       IN Send(a, SwapTx("swap", "WETH", amount, cfg.slippage, ok),
               SwapEffect(a.chain, amount))
  ELSE LET wethBefore == st.chain.bal["WETH"]
           a == Approve(Approve(st, tokenAddress, "PERMIT2", oa),
                        tokenAddress, "UNIVERSAL_ROUTER", oa)
           ok1 == IF a.chain.bal[tokenAddress] >= amount THEN o1
                  ELSE IF o1 = "ok" THEN "reverted" ELSE o1
           v4 == Send(a, SwapTx("v4swap", tokenAddress, amount, cfg.slippage, ok1),
                      V4SwapEffect(a.chain, amount))
           \* if (receipt.status !== 'success') throw
           v4Result == IF ~v4.threw /\ ok1 = "reverted"
                       THEN [v4 EXCEPT !.threw = TRUE] ELSE v4
           wethGained == WethGained(v4Result.chain.bal["WETH"], wethBefore)
       IN IF v4Result.threw \/ wethGained <= 0 THEN v4Result
          ELSE LET b == Approve(v4Result, "WETH", "SWAP_ROUTER", oa)
               IN Send(b, SwapTx("swap", "WETH", wethGained, cfg.slippage, o2),
                       SwapEffect(b.chain, wethGained))

\* Step 3: usdcBefore, then the swap of harvest0 in its try/catch
CAH_Swap0 ==
  /\ script = "CAH" /\ pc = "swap0"
  /\ pc' = "swap1"
  /\ \E oa \in ApproveOutcomes, o1 \in Outcomes, o2 \in Outcomes :
       LET st == swapToUsdc(St(chain, txs), AddressOf(chain, chain.c0), cah.harvest0,
                           oa, o1, o2)
       IN /\ chain' = st.chain /\ txs' = st.txs
          /\ cah' = [cah EXCEPT
                       !.calc = NoCalc, !.usdcBefore = chain.bal["USDC"],
                       !.swap0Log = IF cah.harvest0 <= 0 THEN ""
                                    ELSE IF st.threw THEN "failed" ELSE "ok",
                       !.swap0Failed = SomeFailed(St(chain, txs), st)]
  /\ UNCHANGED <<au, inst, rt, script, cfg, ch, ccf, exitCode, run, dry>>

\* Step 3: the swap of harvest1 in its try/catch
CAH_Swap1 ==
  /\ script = "CAH" /\ pc = "swap1"
  /\ pc' = "transfer"
  /\ \E oa \in ApproveOutcomes, o1 \in Outcomes, o2 \in Outcomes :
       LET st == swapToUsdc(St(chain, txs), AddressOf(chain, Other(chain.c0)),
                           cah.harvest1, oa, o1, o2)
       IN /\ chain' = st.chain /\ txs' = st.txs
          /\ cah' = [cah EXCEPT
                       !.swap1Log = IF cah.harvest1 <= 0 THEN ""
                                    ELSE IF st.threw THEN "failed" ELSE "ok",
                       !.swap1Failed = SomeFailed(St(chain, txs), st)]
  /\ UNCHANGED <<au, inst, rt, script, cfg, ch, ccf, exitCode, run, dry>>

\* Step 4: usdcAfter, the transfer of the delta, the summary
CAH_Transfer ==
  /\ script = "CAH" /\ pc = "transfer"
  /\ LET usdcHarvested == UsdcDelta(chain.bal["USDC"], cah.usdcBefore)
     IN IF usdcHarvested <= 0
        THEN /\ Exit(1) /\ UNCHANGED <<chain, txs>>
             /\ cah' = [cah EXCEPT !.usdcHarvested = usdcHarvested]
        ELSE \E o \in Outcomes :
               LET st == Send(St(chain, txs), Tx("transfer", "USDC", usdcHarvested, o),
                              TransferEffect(chain, usdcHarvested))
               IN /\ chain' = st.chain /\ txs' = st.txs
                  /\ IF st.threw \/ o # "ok"
                     THEN Exit(1) /\ cah' = [cah EXCEPT !.usdcHarvested = usdcHarvested]
                     ELSE /\ Exit(0)
                          /\ cah' = [cah EXCEPT !.usdcHarvested = usdcHarvested,
                                                !.summary = TRUE]
  /\ UNCHANGED <<au, inst, rt, script, cfg, ch, ccf, run, dry>>

\* After a failed vault transfer the operator runs the same command again;
\* new LP fees may have accrued in between.
CAH_RunAgain ==
  /\ script = "CAH" /\ run = 1 /\ TransferFailed
  /\ \E accrued \in {0, AmtBig} :
       chain' = [chain EXCEPT !.posFees["WETH"] = @ + accrued]
  /\ run' = run + 1
  /\ dry' = [ch0 EXCEPT !.harvestedUsdc = cah.usdcHarvested]
  /\ cah' = cah0 /\ txs' = <<>> /\ pc' = "start" /\ exitCode' = -1
  /\ UNCHANGED <<au, inst, rt, script, cfg, ch, ccf>>

---------------------------------------------------------------------------
(* claim-clanker-fees.mjs *)

ccf0 == [wethFees |-> 0, tokenFees |-> 0]

\* the availability reads, "no fees to claim", the dry run
CCF_Check ==
  /\ script = "CCF" /\ pc = "start"
  /\ LET wethFees == chain.fees["WETH"]
         tokenFees == chain.fees["TOKEN"]
     IN /\ ccf' = [wethFees |-> wethFees, tokenFees |-> tokenFees]
        /\ IF (wethFees = 0 /\ tokenFees = 0) \/ cfg.dryRun THEN Exit(0)
           ELSE pc' = "claimToken" /\ exitCode' = exitCode
  /\ UNCHANGED <<au, inst, rt, script, cfg, chain, ch, cah, txs, run, dry>>

CCF_ClaimToken ==
  /\ script = "CCF" /\ pc = "claimToken"
  /\ IF Claims(ccf.tokenFees)
     THEN \E o \in Outcomes :
            LET st == Send(St(chain, txs), Tx("claim", "TOKEN", ccf.tokenFees, o),
                           ClaimEffect(chain, "TOKEN"))
            IN /\ chain' = st.chain /\ txs' = st.txs
               /\ IF st.threw THEN Exit(1)
                  ELSE pc' = "claimWeth" /\ exitCode' = exitCode
     ELSE pc' = "claimWeth" /\ UNCHANGED <<chain, txs, exitCode>>
  /\ UNCHANGED <<au, inst, rt, script, cfg, ch, cah, ccf, run, dry>>

CCF_ClaimWeth ==
  /\ script = "CCF" /\ pc = "claimWeth"
  /\ IF Claims(ccf.wethFees)
     THEN \E o \in Outcomes :
            LET st == Send(St(chain, txs), Tx("claim", "WETH", ccf.wethFees, o),
                           ClaimEffect(chain, "WETH"))
            IN /\ chain' = st.chain /\ txs' = st.txs
               /\ IF st.threw THEN Exit(1) ELSE Exit(0)
     ELSE Exit(0) /\ UNCHANGED <<chain, txs>>
  /\ UNCHANGED <<au, inst, rt, script, cfg, ch, cah, ccf, run, dry>>

---------------------------------------------------------------------------
(* burn-position.mjs *)

\* ownership, position info, the built unlockData, the dry run
BP_Start ==
  /\ script = "BP" /\ pc = "start"
  /\ IF ~chain.owned THEN Exit(1)
     ELSE IF cfg.dryRun THEN Exit(0)
     ELSE pc' = "burn" /\ exitCode' = exitCode
  /\ UNCHANGED <<au, inst, rt, script, cfg, chain, ch, cah, ccf, txs, run, dry>>

\* modifyLiquidities(BURN_POSITION + TAKE_PAIR) in its try/catch
BP_Burn ==
  /\ script = "BP" /\ pc = "burn"
  /\ \E o \in Outcomes :
       LET st == Send(St(chain, txs), Tx("burn", "LP", 0, o), BurnEffect(chain))
       IN /\ chain' = st.chain /\ txs' = st.txs
          /\ IF o = "ok" THEN Exit(0) ELSE Exit(1)
  /\ UNCHANGED <<au, inst, rt, script, cfg, ch, cah, ccf, run, dry>>

---------------------------------------------------------------------------
(* retry(fn, ...): the two helpers that wrap the scripts' RPC reads.  A call  *)
(* of the helper is a process of its own ("RETRY_CH", "RETRY_CAH"); its input *)
(* is rt.errs, the errors the wrapped call throws in turn before it succeeds. *)

\* err.message includes '429' or 'rate limit', or anything else (a revert, ...)
ErrKinds == {"rate limit", "revert"}

\* async function retry(fn, n = 3): sleep(2000)
n == 3
SleepMs == 2000
\* async function retry(fn, maxRetries = 4, baseDelayMs = 2000)
maxRetries == 4
baseDelayMs == 2000

rt0 == [errs |-> <<>>, i |-> 0, calls |-> 0, delay |-> 0, sleeps |-> <<>>,
        out |-> ""]

\* clanker-harvest: for (i < n) { try { return await fn() }
\*                               catch (e) { if (i === n - 1) throw e; await sleep(2000) } }
RetryCH_Attempt ==
  /\ script = "RETRY_CH" /\ pc = "start" /\ rt.i < n
  /\ LET calls == rt.calls + 1
     IN IF calls > Len(rt.errs)
        THEN pc' = "done" /\ rt' = [rt EXCEPT !.calls = calls, !.out = "returned"]
        ELSE IF rt.i = n - 1
        THEN pc' = "done" /\ rt' = [rt EXCEPT !.calls = calls, !.out = "thrown"]
        ELSE /\ pc' = pc
             /\ rt' = [rt EXCEPT !.calls = calls, !.i = @ + 1,
                                 !.sleeps = Append(@, SleepMs)]
  /\ UNCHANGED <<au, inst, script, cfg, chain, ch, cah, ccf, txs, exitCode, run, dry>>

\* compound-and-harvest: the last attempt's error and every error that is not a
\* rate limit are rethrown; otherwise sleep(delay), delay *= 2
RetryCAH_Attempt ==
  /\ script = "RETRY_CAH" /\ pc = "start" /\ rt.i < maxRetries
  /\ LET calls == rt.calls + 1
     IN IF calls > Len(rt.errs)
        THEN pc' = "done" /\ rt' = [rt EXCEPT !.calls = calls, !.out = "returned"]
        ELSE IF rt.i = maxRetries - 1 \/ rt.errs[calls] # "rate limit"
        THEN pc' = "done" /\ rt' = [rt EXCEPT !.calls = calls, !.out = "thrown"]
        ELSE /\ pc' = pc
             /\ rt' = [rt EXCEPT !.calls = calls, !.i = @ + 1,
                                 !.sleeps = Append(@, rt.delay),
                                 !.delay = @ * 2]
  /\ UNCHANGED <<au, inst, script, cfg, chain, ch, cah, ccf, txs, exitCode, run, dry>>

---------------------------------------------------------------------------
(* Two clanker-harvest instances run with --skip-claim for the same position *)
(* and wallet at the same time ("PAIR").  Each goes through the Collect step  *)
(* on its own: snapshot, collect transaction, measure; the totals it splits  *)
(* are what it measured.                                                     *)

Instances == {1, 2}
inst0 == [pc |-> "snapshot", wethBefore |-> 0, tokenBefore |-> 0,
          lpWeth |-> 0, lpToken |-> 0, paidWeth |-> 0, paidToken |-> 0,
          otherAt |-> ""]

\* const [wethBefore, tokenBefore] = balanceOf(WETH), balanceOf(token);
\* otherAt notes where the other instance was at that time
Pair_Snapshot ==
  /\ script = "PAIR"
  /\ \E i \in Instances :
       /\ inst[i].pc = "snapshot"
       /\ inst' = [inst EXCEPT ![i].pc = "collect",
                               ![i].wethBefore = chain.bal["WETH"],
                               ![i].tokenBefore = chain.bal["TOKEN"],
                               ![i].otherAt = inst[CHOOSE j \in Instances : j # i].pc]
  /\ UNCHANGED <<au, rt, script, cfg, chain, pc, ch, cah, ccf, txs, exitCode, run, dry>>

\* modifyLiquidities(collect) and the wait for its receipt; paid is what this
\* transaction brought into the wallet
Pair_Collect ==
  /\ script = "PAIR"
  /\ \E i \in Instances :
       /\ inst[i].pc = "collect"
       /\ LET st == Send(St(chain, txs), Tx("collect", "LP", 0, "ok"),
                         CollectEffect(chain))
          IN /\ chain' = st.chain /\ txs' = st.txs
             /\ inst' = [inst EXCEPT ![i].pc = "measure",
                                     ![i].paidWeth = chain.posFees["WETH"],
                                     ![i].paidToken = chain.posFees["TOKEN"]]
  /\ UNCHANGED <<au, rt, script, cfg, pc, ch, cah, ccf, exitCode, run, dry>>

\* lpWeth = wethAfter - wethBefore, lpToken = tokenAfter - tokenBefore
Pair_Measure ==
  /\ script = "PAIR"
  /\ \E i \in Instances :
       /\ inst[i].pc = "measure"
       /\ inst' = [inst EXCEPT
                     ![i].pc = "done",
                     ![i].lpWeth = BalanceDelta(chain.bal["WETH"], inst[i].wethBefore),
                     ![i].lpToken = BalanceDelta(chain.bal["TOKEN"], inst[i].tokenBefore)]
  /\ UNCHANGED <<au, rt, script, cfg, chain, pc, ch, cah, ccf, txs, exitCode, run, dry>>

---------------------------------------------------------------------------
(* Initial states: a configuration and a chain state *)


ChainStates ==
  [fees : {f \in [Currencies -> {0, AmtSmall, AmtBig}] :
             f["WETH"] \in {0, AmtBig} /\ f["TOKEN"] \in {0, AmtSmall}},
   posFees : {[t \in Currencies |-> 0],
              [t \in Currencies |-> IF t = "WETH" THEN 0 ELSE AmtBig],
              [t \in Currencies |-> IF t = "WETH" THEN AmtSmall ELSE AmtBig]},
   bal : {[t \in Currencies \cup {"USDC"} |-> IF t = "USDC" THEN UsdcInit ELSE 0]},
   vault : {0},
   posLiq : {0, AmtSmall},
   owned : BOOLEAN,
   c0 : Currencies,
   tokenIsUsdc : {FALSE},
   approved : {{}, AllApprovals}]

\* A WETH/USDC position: one of the pool's currencies is the settlement asset.
UsdcPairStates ==
  {[c EXCEPT !.tokenIsUsdc = TRUE] :
     c \in {d \in ChainStates : /\ d.owned /\ d.posLiq = AmtSmall /\ d.c0 = "WETH"
                                /\ d.approved = AllApprovals
                                /\ d.fees = [t \in Currencies |-> 0]}}

CH_Configs ==
  [tokenId : BOOLEAN, harvestAddress : BOOLEAN,
   pctGiven : BOOLEAN, compoundPct : CompoundPcts,
   minUsd : {0, MinUsdHi}, slippage : Slippages,
   dryRun : BOOLEAN, skipClaim : BOOLEAN, skipLp : BOOLEAN]

\* clanker-harvest reads neither the owner nor the liquidity of the position;
\* without a position id there is no position and its fields are fixed.
CH_Init ==
  /\ script = "CH"
  /\ cfg \in CH_Configs
  /\ UnsetPctIsDefault
  /\ chain \in ChainStates
  /\ (~cfg.tokenId => chain.owned /\ chain.posLiq = AmtSmall)
  \* a position without liquidity has been paid its fees
  /\ (chain.posLiq = 0 => chain.posFees = [t \in Currencies |-> 0] /\ chain.owned)
  \* the cases below are explored with no threshold and no step skipped
  /\ (~chain.owned \/ ~cfg.pctGiven \/ cfg.compoundPct \notin 0..100)
     => (cfg.minUsd = 0 /\ chain.approved = AllApprovals /\ ~cfg.skipClaim /\ ~cfg.skipLp)
  /\ chain.posLiq = 0
     => (cfg.minUsd = 0 /\ cfg.pctGiven /\ ~cfg.skipClaim /\ ~cfg.skipLp)
  /\ (~cfg.tokenId => chain.posFees = [t \in Currencies |-> 0] /\ chain.c0 = "WETH")

\* compound-and-harvest requires --token-id and --harvest-address
CAH_Init ==
  /\ script = "CAH"
  /\ cfg \in CH_Configs
  /\ cfg.pctGiven
  /\ cfg.tokenId /\ cfg.harvestAddress /\ cfg.minUsd = 0
  /\ ~cfg.skipClaim /\ ~cfg.skipLp
  /\ chain \in ChainStates \cup UsdcPairStates
  /\ chain.fees = [t \in Currencies |-> 0]

\* claim-clanker-fees has --token, --fee-contract and --dry-run only
CCF_Init ==
  /\ script = "CCF"
  /\ cfg \in CH_Configs
  /\ cfg.pctGiven
  /\ ~cfg.tokenId /\ ~cfg.harvestAddress /\ cfg.minUsd = 0 /\ cfg.compoundPct = 0
  /\ ~cfg.skipClaim /\ ~cfg.skipLp
  /\ chain \in ChainStates
  /\ chain.owned /\ chain.posLiq = AmtSmall /\ chain.c0 = "WETH"
  /\ chain.posFees = [t \in Currencies |-> 0]
  /\ chain.approved = {}

\* burn-position has --token-id and --dry-run only
BP_Init ==
  /\ script = "BP"
  /\ cfg \in CH_Configs
  /\ cfg.pctGiven
  /\ cfg.tokenId /\ ~cfg.harvestAddress /\ cfg.minUsd = 0 /\ cfg.compoundPct = 0
  /\ ~cfg.skipClaim /\ ~cfg.skipLp
  /\ chain \in ChainStates
  /\ chain.fees = [t \in Currencies |-> 0] /\ chain.c0 = "WETH"
  /\ chain.approved = {}

\* one call of a retry helper: the wrapped read fails 0..MaxErrs times
ErrSeqs == UNION {[1..k -> ErrKinds] : k \in 0..MaxErrs}
Retry_Init ==
  /\ script \in {"RETRY_CH", "RETRY_CAH"}
  /\ cfg = [tokenId |-> FALSE, harvestAddress |-> FALSE, pctGiven |-> TRUE,
            compoundPct |-> 0, minUsd |-> 0, slippage |-> 1, dryRun |-> FALSE,
            skipClaim |-> FALSE, skipLp |-> FALSE]
  /\ chain = [fees |-> [t \in Currencies |-> 0], posFees |-> [t \in Currencies |-> 0],
              bal |-> [t \in Currencies \cup {"USDC"} |-> 0], vault |-> 0,
              posLiq |-> 0, owned |-> FALSE, c0 |-> "WETH", tokenIsUsdc |-> FALSE,
              approved |-> {}]
  /\ \E errs \in ErrSeqs :
       rt = [rt0 EXCEPT !.errs = errs,
                        !.delay = IF script = "RETRY_CAH" THEN baseDelayMs ELSE 0]

Start ==
  /\ pc = "start" /\ ch = ch0 /\ cah = cah0 /\ ccf = ccf0
  /\ txs = <<>> /\ exitCode = -1 /\ run = 1 /\ dry = ch0

Pair_Init ==
  /\ script = "PAIR"
  /\ cfg = [tokenId |-> TRUE, harvestAddress |-> TRUE, pctGiven |-> TRUE,
            compoundPct |-> 50, minUsd |-> 0, slippage |-> 1, dryRun |-> FALSE,
            skipClaim |-> TRUE, skipLp |-> FALSE]
  /\ chain \in ChainStates
  /\ chain.owned /\ chain.posLiq = AmtSmall /\ chain.approved = AllApprovals
  /\ chain.fees = [t \in Currencies |-> 0]

----------------------------------------------------------------------------
(* security-audit.mjs *)

\* a permission mode written as its three octal digits, as in 0o600
Octal(u, g, o) == u * 64 + g * 8 + o

\* Files of the home directory the audit can meet: an entry of the credential
\* file list, an entry of the credential directory list, and a secret-named
\* file that is on neither list.
AuditFiles == {"wallet.env", ".ssh", "server.pem"}
FileOrder == <<"wallet.env", ".ssh", "server.pem">>

\* checkCredentialFiles: the [path, mode, label] entries, files and then dirs
CredentialList ==
  << [path |-> "wallet.env", mode |-> Octal(6, 0, 0)],
     [path |-> ".ssh", mode |-> Octal(7, 0, 0)] >>

\* find ... \( -name "*.env" -o ... -o -name "*.pem" -o -name "*wallet*" ... \)
SecretName(f) == f \in {"wallet.env", "server.pem"}
\* find ... -perm -004
WorldReadable(mode) == (mode \div 4) % 2 = 1

\* (stat.mode & 0o777).toString(8) and parseInt(mode, 8)
RECURSIVE toString8(_)
toString8(m) == IF m < 8 THEN <<m>> ELSE Append(toString8(m \div 8), m % 8)
RECURSIVE parseInt8(_)
parseInt8(d) ==
  IF Len(d) = 0 THEN 0 ELSE parseInt8(SubSeq(d, 1, Len(d) - 1)) * 8 + d[Len(d)]

au0 ==
  [fix |-> FALSE,
   fs |-> [f \in AuditFiles |-> [exists |-> FALSE, mode |-> 0]],
   i |-> 1,
   results |-> [pass |-> 0, warn |-> 0, fail |-> 0, fixed |-> 0],
   checks |-> <<>>]

\* pass / warn / fail / fixed: count the result and push it on results.checks
Record(a, status, file, check) ==
  [a EXCEPT !.checks = Append(@, [status |-> status, file |-> file, check |-> check])]
pass(a, file, check) == [Record(a, "PASS", file, check) EXCEPT !.results.pass = @ + 1]
warn(a, file, check) == [Record(a, "WARN", file, check) EXCEPT !.results.warn = @ + 1]
fail(a, file, check) == [Record(a, "FAIL", file, check) EXCEPT !.results.fail = @ + 1]
fixed(a, file, check) == [Record(a, "FIXED", file, check) EXCEPT !.results.fixed = @ + 1]

\* chmodSync(path, mode)
chmodSync(a, file, mode) == [a EXCEPT !.fs[file].mode = mode]

\* if (FIX_MODE)
FixAppliesAlways == TRUE
FixApplies == au.fix

\* checkFilePermission, called by checkCredentialFiles for each list entry
Audit_CheckFilePermission ==
  /\ script = "AUDIT" /\ pc = "start"
  /\ LET e == CredentialList[au.i]
         f == au.fs[e.path]
         mode == toString8(f.mode % 512)
         expected == toString8(e.mode)
         next == [au EXCEPT !.i = @ + 1]
     IN IF ~f.exists THEN au' = next
        ELSE IF parseInt8(mode) <= parseInt8(expected)
        THEN au' = pass(next, e.path, "permission")
        ELSE IF FixApplies
        THEN \E o \in {"ok", "throw"} :
               au' = IF o = "ok"
                     THEN fixed(chmodSync(next, e.path, e.mode), e.path, "permission")
                     ELSE fail(next, e.path, "permission")
        ELSE au' = fail(next, e.path, "permission")
  /\ pc' = IF au.i = Len(CredentialList) THEN "worldReadable" ELSE pc
  /\ UNCHANGED <<inst, rt, script, cfg, chain, ch, cah, ccf, txs, exitCode, run, dry>>

\* the for loop of checkWorldReadableSecrets over the files find printed
RECURSIVE WorldReadableLoop(_, _, _)
WorldReadableLoop(a, files, outs) ==
  IF files = <<>> THEN a
  ELSE LET f == Head(files)
           b == IF FixApplies
                THEN IF outs[f] = "ok"
                     THEN fixed(chmodSync(a, f, Octal(6, 0, 0)), f, "worldReadable")
                     ELSE fail(a, f, "worldReadable")
                ELSE fail(a, f, "worldReadable")
       IN WorldReadableLoop(b, Tail(files), outs)

IsFound(f) == au.fs[f].exists /\ SecretName(f) /\ WorldReadable(au.fs[f].mode)

\* checkWorldReadableSecrets; run() returns null when find fails
Audit_WorldReadableSecrets ==
  /\ script = "AUDIT" /\ pc = "worldReadable"
  /\ \E findFailed \in BOOLEAN, outs \in [AuditFiles -> {"ok", "throw"}] :
       LET output == IF findFailed THEN <<>> ELSE SelectSeq(FileOrder, IsFound)
       IN /\ \A f \in AuditFiles : (~FixApplies \/ findFailed \/ ~IsFound(f)) => outs[f] = "ok"
          /\ au' = IF output = <<>> THEN pass(au, "", "worldReadable")
                   ELSE WorldReadableLoop(au, output, outs)
  /\ pc' = "rest"
  /\ UNCHANGED <<inst, rt, script, cfg, chain, ch, cah, ccf, txs, exitCode, run, dry>>

\* checkGitignore ... checkRunningServices: they read git, the disk and the
\* listening sockets and report by pass / warn / fail only
Audit_OtherChecks ==
  /\ script = "AUDIT" /\ pc = "rest"
  /\ \E p \in BOOLEAN, w \in BOOLEAN, f \in BOOLEAN :
       LET a1 == IF p THEN pass(au, "", "other") ELSE au
           a2 == IF w THEN warn(a1, "", "other") ELSE a1
       IN au' = IF f THEN fail(a2, "", "other") ELSE a2
  /\ pc' = "summary"
  /\ UNCHANGED <<inst, rt, script, cfg, chain, ch, cah, ccf, txs, exitCode, run, dry>>

\* process.exit(results.fail > 0 ? 1 : 0)
Audit_Summary ==
  /\ script = "AUDIT" /\ pc = "summary"
  /\ pc' = "done"
  /\ exitCode' = IF au.results.fail > 0 THEN 1 ELSE 0
  /\ UNCHANGED <<au, inst, rt, script, cfg, chain, ch, cah, ccf, txs, run, dry>>

AuditFileStates ==
  {fs \in [AuditFiles -> [exists : BOOLEAN,
                          mode : {0, Octal(6, 0, 0), Octal(6, 4, 4),
                                  Octal(7, 0, 0), Octal(7, 5, 5)}]] :
     /\ fs["server.pem"].exists
     /\ \A f \in AuditFiles :
          fs[f].mode \in IF ~fs[f].exists THEN {0}
                         ELSE IF f = ".ssh" THEN {Octal(7, 0, 0), Octal(7, 5, 5)}
                         ELSE {Octal(6, 0, 0), Octal(6, 4, 4)}}

Audit_Init ==
  /\ script = "AUDIT"
  /\ cfg = [tokenId |-> FALSE, harvestAddress |-> FALSE, pctGiven |-> TRUE,
            compoundPct |-> 0, minUsd |-> 0, slippage |-> 1, dryRun |-> FALSE,
            skipClaim |-> FALSE, skipLp |-> FALSE]
  /\ chain = [fees |-> [t \in Currencies |-> 0], posFees |-> [t \in Currencies |-> 0],
              bal |-> [t \in Currencies \cup {"USDC"} |-> 0], vault |-> 0,
              posLiq |-> 0, owned |-> FALSE, c0 |-> "WETH", tokenIsUsdc |-> FALSE,
              approved |-> {}]
  /\ \E fix \in BOOLEAN, fs \in AuditFileStates :
       au = [au0 EXCEPT !.fix = fix, !.fs = fs]

NoInstances == [i \in Instances |-> inst0]

Init ==
  /\ \/ (CH_Init \/ CAH_Init \/ CCF_Init \/ BP_Init) /\ rt = rt0 /\ au = au0
     \/ Retry_Init /\ au = au0
     \/ Pair_Init /\ rt = rt0 /\ au = au0
     \/ Audit_Init /\ rt = rt0
  /\ inst = NoInstances
  /\ Start

Next ==
  \/ CH_Claim \/ CH_ClaimToken \/ CH_ClaimWeth \/ CH_Collect \/ CH_Total
  \/ CH_Compound \/ CH_Swap \/ CH_Transfer \/ CH_Summary \/ CH_Rerun
  \/ CAH_Start \/ CAH_Collect \/ CAH_Compound \/ CAH_Swap0 \/ CAH_Swap1
  \/ CAH_Transfer \/ CH_RunAgain \/ CAH_RunAgain
  \/ CCF_Check \/ CCF_ClaimToken \/ CCF_ClaimWeth
  \/ BP_Start \/ BP_Burn
  \/ RetryCH_Attempt \/ RetryCAH_Attempt
  \/ Pair_Snapshot \/ Pair_Collect \/ Pair_Measure
  \/ Audit_CheckFilePermission \/ Audit_WorldReadableSecrets
  \/ Audit_OtherChecks \/ Audit_Summary

Spec == Init /\ [][Next]_vars

---------------------------------------------------------------------------
(* Properties *)

FnsOf(t) == {t[i].fn : i \in 1..Len(t)}
LastFn(t) == IF t = <<>> THEN "" ELSE t[Len(t)].fn

\* c is the floor of T * pct / 100 and h is the rest of T
IsSplitOf(T, pct, c, h) ==
  /\ 100 * c <= T * pct /\ T * pct < 100 * (c + 1)
  /\ h = T - c /\ c + h = T
  /\ 0 <= c /\ c <= T /\ 0 <= h /\ h <= T

\* C1 (split conservation): for every compound percentage in 0..100 and every
\* non-negative total, in both pipelines and for each currency, the compound
\* amount is floor(total * pct / 100), the harvest amount is the total minus
\* the compound amount, the two add up to the total and each lies in 0..total.
C1_SplitConservation ==
  /\ (script = "CH" /\ ch.split /\ cfg.compoundPct \in 0..100
        /\ ch.totalWeth >= 0 /\ ch.totalToken >= 0)
     => /\ IsSplitOf(ch.totalWeth, cfg.compoundPct, ch.compoundWeth, ch.harvestWeth)
        /\ IsSplitOf(ch.totalToken, cfg.compoundPct, ch.compoundToken, ch.harvestToken)
  /\ (script = "CAH" /\ cah.split /\ compoundPct \in 0..100
        /\ cah.fees0 >= 0 /\ cah.fees1 >= 0)
     => /\ IsSplitOf(cah.fees0, compoundPct, cah.compound0, cah.harvest0)
        /\ IsSplitOf(cah.fees1, compoundPct, cah.compound1, cah.harvest1)

\* a 50 % split of an odd total: the floor leaves the odd unit to the harvest
C1_Witness ==
  /\ script = "CH" /\ ch.split /\ cfg.compoundPct = 50
  /\ ch.totalToken = AmtSmall /\ ch.compoundToken < ch.harvestToken
  /\ ch.totalWeth = AmtBig /\ ch.compoundWeth = ch.harvestWeth

\* The totals of clanker-harvest have been computed (the Total step has run)
CH_TotalsComputed == script = "CH" /\ (ch.split \/ ch.result.set)
CH_BelowMinUsd ==
  /\ cfg.minUsd > 0
  /\ UsdValue(ch.claimedWeth + ch.lpWeth, ch.claimedToken + ch.lpToken) < cfg.minUsd

\* C2 (threshold gate), as the code has it: in a run of the harvest pipeline
\* with minUsd > 0 whose total USD value is below minUsd, the run ends at the
\* threshold check with exit status 0 and issues no mutating call after it: no
\* increase-liquidity, swap or transfer.  The only calls of the run are the
\* claims and the collection (with its approvals) that came before the check.
C2_NoCallAfterThreshold ==
  (CH_TotalsComputed /\ CH_BelowMinUsd)
  => /\ pc = "done" /\ exitCode = 0 /\ ~ch.split
     /\ FnsOf(txs) \subseteq {"claim", "approve", "collect"}
     /\ LastFn(txs) \in {"", "claim", "collect"}

\* a live run below the threshold that has claimed and collected
C2_Witness ==
  /\ CH_TotalsComputed /\ CH_BelowMinUsd /\ ch.result.belowThreshold
  /\ ~cfg.dryRun /\ {"claim", "collect"} \subseteq FnsOf(txs)

\* C2 as stated: below the threshold no mutating call is issued at any point
\* of the run.
C2_NoCallAtAnyPoint ==
  (CH_TotalsComputed /\ CH_BelowMinUsd) => txs = <<>>

\* C3 (dry run): with dryRun = true no script (clanker-harvest,
\* compound-and-harvest, claim-clanker-fees, burn-position) issues a mutating
\* transaction: no claim, collect, approve, increase, swap, transfer or burn.
C3_DryRunIssuesNothing ==
  cfg.dryRun => txs = <<>>

\* a dry run of clanker-harvest that went through every step with fees to
\* claim, a position to collect from, a compound share and a harvest share
C3_Witness ==
  /\ script = "CH" /\ cfg.dryRun /\ pc = "done" /\ exitCode = 0
  /\ ch.claimedWeth > 0 /\ CH_CollectSendsAlways
  /\ ch.compoundLog = "would" /\ wantHarvest /\ ch.harvestWeth > 0

AllOk(t) == \A i \in 1..Len(t) : t[i].st = "ok"

\* the previous run was a dry run (a dry run gains no USDC), or a live run whose
\* vault transfer failed and left its USDC in the wallet
FollowsDryRun == run = 2 /\ dry.harvestedUsdc = 0
FollowsFailedTransfer == run = 2 /\ dry.harvestedUsdc > 0

\* C4 (dry-run equivalence): the totals and the split computed in a dry run
\* equal those a live run computes from the same chain state (the live run
\* follows the dry run on the unchanged chain and none of its calls fails).
C4_DryRunEquivalence ==
  (CH_TotalsComputed /\ FollowsDryRun /\ ~cfg.dryRun /\ AllOk(txs))
  => /\ dry.totalWeth = ch.totalWeth /\ dry.totalToken = ch.totalToken
     /\ dry.split = ch.split
     /\ dry.compoundWeth = ch.compoundWeth /\ dry.compoundToken = ch.compoundToken
     /\ dry.harvestWeth = ch.harvestWeth /\ dry.harvestToken = ch.harvestToken

\* The Compound step of the run did not add liquidity
CH_CompoundFailed ==
  /\ script = "CH" /\ ch.split /\ wantCompound
  /\ \/ ch.compoundLog \in {"zero", "failed"}
     \/ \E i \in 1..Len(txs) : txs[i].fn = "increase" /\ txs[i].st # "ok"
CAH_CompoundFailed ==
  /\ script = "CAH" /\ cah.split /\ exitCode # 1
  /\ \/ cah.compoundLog = "failed"
     \/ \E i \in 1..Len(txs) : txs[i].fn = "increase" /\ txs[i].st # "ok"

\* C5 (compound fallback): when the compound step fails or computes zero
\* liquidity, the compound amounts go back to the harvest amounts, so that the
\* whole collected total of each currency is what the swap step is given.
C5_CompoundFallback ==
  /\ CH_CompoundFailed
     => \A i \in 1..Len(txs) :
          txs[i].fn = "swap" => txs[i].amt = ch.totalWeth
  /\ CAH_CompoundFailed
     => \A i \in 1..Len(txs) :
          /\ (txs[i].fn = "swap" /\ chain.c0 = "WETH" /\ FnsOf(txs) \cap {"v4swap"} = {})
             => txs[i].amt = cah.fees0
          /\ txs[i].fn = "v4swap"
             => txs[i].amt = IF chain.c0 = "TOKEN" THEN cah.fees0 ELSE cah.fees1

\* C6 (zero-liquidity compound): when the computed liquidity is zero (or the
\* computation itself throws inside the harvest pipeline's try block), the
\* compound step issues no increase-liquidity transaction and does not abort
\* the run: the pipeline goes on to the swap step.  With ordered range bounds
\* the computation of compound-and-harvest does not throw.
C6_ZeroLiquidityCompound ==
  /\ (script = "CH" /\ ch.calc.done /\ (ch.calc.threw \/ ch.calc.liquidity <= 0))
     => /\ "increase" \notin FnsOf(txs)
        /\ pc = "swap" /\ exitCode = -1
  /\ (script = "CAH" /\ cah.calc.done)
     => /\ (cah.calc.sqrtLower < cah.calc.sqrtUpper => ~cah.calc.threw)
        /\ cah.calc.liquidity <= 0
           => /\ "increase" \notin FnsOf(txs)
              /\ exitCode # 1
              /\ pc = "swap0" \/ (pc = "done" /\ cah.harvest0 <= 0 /\ cah.harvest1 <= 0)

\* a positive compound amount whose liquidity comes out as zero: nothing is
\* sent and the harvest share goes on to the swap step
C6_Witness ==
  /\ script = "CH" /\ ch.calc.done /\ ~ch.calc.threw /\ ch.calc.liquidity = 0
  /\ ch.calc.amount1 > 0 /\ ch.compoundLog = "zero" /\ wantHarvest

\* The liquidity computation the Compound step of the running script made
Calc == IF script = "CH" THEN ch.calc ELSE cah.calc
CalcLiquidity(a0, a1) ==
  IF script = "CH"
  THEN InlineLiquidity(Calc.sqrtPriceX96, Calc.sqrtLower, Calc.sqrtUpper, a0, a1)
  ELSE getLiquidityForAmounts(Calc.sqrtPriceX96, Calc.sqrtLower, Calc.sqrtUpper, a0, a1)

\* The token0-only and token1-only formulas over [A, B], as each script writes
\* them: a0 * A * B / ((B - A) * Q96) inline, a0 * (A * B / Q96) / (B - A) in
\* getLiquidityForAmounts, and a1 * Q96 / (B - A) in both.
Token0Formula(a0, A, B) ==
  IF script = "CH" THEN (a0 * A * B) \div ((B - A) * Q96)
  ELSE (a0 * ((A * B) \div Q96)) \div (B - A)
Token1Formula(a1, A, B) == (a1 * Q96) \div (B - A)

OtherAmounts == {0, 1, AmtSmall, AmtBig}

\* C7 (LiquidityMath case selection): for a current sqrt price P, bounds L < U
\* and amounts a0, a1: if P <= L the liquidity is the token0-only formula over
\* [L, U] and does not depend on a1; if P >= U it is the token1-only formula
\* a1 * Q96 / (U - L) and does not depend on a0; if L < P < U it is the minimum
\* of the token0 formula over [P, U] and the token1 formula over [L, P].
C7_CaseSelection ==
  (script \in {"CH", "CAH"} /\ Calc.done /\ ~Calc.threw /\ Calc.sqrtLower < Calc.sqrtUpper)
  => LET P == Calc.sqrtPriceX96
         L == Calc.sqrtLower
         U == Calc.sqrtUpper
         a0 == Calc.amount0
         a1 == Calc.amount1
     IN /\ P <= L => /\ Calc.liquidity = Token0Formula(a0, L, U)
                     /\ \A b1 \in OtherAmounts : CalcLiquidity(a0, b1) = Calc.liquidity
        /\ P >= U => /\ Calc.liquidity = Token1Formula(a1, L, U)
                     /\ \A b0 \in OtherAmounts : CalcLiquidity(b0, a1) = Calc.liquidity
        /\ (L < P /\ P < U)
           => /\ Calc.liquidity <= Token0Formula(a0, P, U)
              /\ Calc.liquidity <= Token1Formula(a1, L, P)
              /\ Calc.liquidity \in {Token0Formula(a0, P, U), Token1Formula(a1, L, P)}

\* the price inside the range with the two formulas disagreeing
C7_Witness ==
  /\ script = "CH" /\ ch.calc.done /\ ~ch.calc.threw
  /\ ch.calc.sqrtLower < ch.calc.sqrtPriceX96 /\ ch.calc.sqrtPriceX96 < ch.calc.sqrtUpper
  /\ ch.calc.amount0 > 0 /\ ch.calc.amount1 > 0
  /\ Token0Formula(ch.calc.amount0, ch.calc.sqrtPriceX96, ch.calc.sqrtUpper)
       # Token1Formula(ch.calc.amount1, ch.calc.sqrtLower, ch.calc.sqrtPriceX96)

\* The settlement-asset balance read before the swap phase of the running script
UsdcBefore == IF script = "CH" THEN ch.usdcBefore ELSE cah.usdcBefore

\* C8 (vault transfer is delta-only): the amount sent to the vault is the USDC
\* balance read after the swap phase minus the balance read before it, a
\* transfer is issued only when that delta is > 0, and after a successful
\* transfer the wallet's USDC balance is not lower than before the swap phase.
C8_TransferIsDelta ==
  \A i \in 1..Len(txs) :
    txs[i].fn = "transfer"
    => /\ i = Len(txs) /\ txs[i].amt > 0
       /\ txs[i].st = "ok"
          => /\ chain.vault = txs[i].amt
             /\ (chain.bal["USDC"] + txs[i].amt) - UsdcBefore = txs[i].amt
             /\ chain.bal["USDC"] >= UsdcBefore
             /\ chain.bal["USDC"] >= UsdcInit
       /\ txs[i].st # "ok"
          => chain.bal["USDC"] - UsdcBefore = txs[i].amt

\* a successful transfer of the swap's proceeds from a wallet that held USDC
\* before the run: the earlier balance is still there
C8_Witness ==
  /\ script = "CH" /\ LastFn(txs) = "transfer" /\ txs[Len(txs)].st = "ok"
  /\ "swap" \in FnsOf(txs)
  /\ UsdcInit > 0 /\ chain.bal["USDC"] = UsdcInit /\ chain.vault > 0

\* C9 (claim failure isolation): when the claim transaction of one token
\* reverts or fails, that token's claimed amount stays 0 and the run is not
\* aborted by it: the pipeline goes on to the other token's claim and to the
\* collection.
C9_ClaimFailureIsolation ==
  script = "CH"
  => \A i \in 1..Len(txs) :
       (txs[i].fn = "claim" /\ txs[i].st # "ok")
       => /\ txs[i].tok = "TOKEN" => ch.claimedToken = 0
          /\ txs[i].tok = "WETH" => ch.claimedWeth = 0
          /\ i = Len(txs) => exitCode # 1

\* C10 (collection failure stops the run): when the fee-collection transaction
\* reverts or fails, no split is computed and no compound, swap or transfer
\* transaction is issued afterwards in that run.
C10_CollectFailureStops ==
  \A i \in 1..Len(txs) :
    (script \in {"CH", "CAH"} /\ txs[i].fn = "collect" /\ txs[i].st # "ok")
    => /\ ~ch.split /\ ~cah.split
       /\ i = Len(txs)

\* the same case in compound-and-harvest (also reachable): addLiquidity
\* returns without sending
C6_ZeroLiquidityInAddLiquidity ==
  /\ script = "CAH" /\ cah.calc.done /\ cah.calc.liquidity = 0
  /\ cah.calc.amount1 > 0 /\ pc = "swap0"

\* C11 (swap isolation): when the swap of one harvest currency fails (throws
\* or reverts), the swap of the other harvest currency is still attempted in
\* the same run, the failure is reported for the token that failed and only
\* for it, and the pipeline proceeds to the transfer step.
C11_SwapIsolation ==
  /\ (script = "CAH" /\ pc = "transfer")
     => /\ (cah.harvest0 > 0 => cah.swap0Log # "")
        /\ (cah.harvest1 > 0 => cah.swap1Log # "")
        /\ (cah.swap0Log = "failed") = cah.swap0Failed
        /\ (cah.swap1Log = "failed") = cah.swap1Failed
  /\ (script = "CAH" /\ (cah.swap0Failed \/ cah.swap1Failed))
     => pc \in {"swap1", "transfer"} \/ cah.usdcHarvested # 0 \/ "transfer" \in FnsOf(txs)
        \/ (pc = "done" /\ UsdcDelta(chain.bal["USDC"], cah.usdcBefore) <= 0)
  /\ (script = "CH" /\ pc = "transfer")
     => /\ (ch.swapLog = "failed") = ch.swapFailed
        /\ (ch.swapFailed /\ ch.harvestToken > 0) => "v4swap" \in FnsOf(txs)

Summarized == IF script = "CH" THEN ch.summary ELSE cah.summary

\* C12 (transfer failure is fatal and loses nothing): when the vault transfer
\* fails or reverts, the run ends with a failing exit status without reporting
\* the transfer as sent or the run as complete, and the amount that was to be
\* transferred is still in the wallet.
C12_TransferFailureFatal ==
  \A i \in 1..Len(txs) :
    (script \in {"CH", "CAH"} /\ txs[i].fn = "transfer" /\ txs[i].st # "ok")
    => /\ pc = "done" /\ exitCode = 1 /\ ~Summarized
       /\ chain.vault = 0
       /\ UsdcDelta(chain.bal["USDC"], UsdcBefore) = txs[i].amt

\* The run is live and passed its precondition checks (compound-and-harvest
\* checks the owner of the position and that it has liquidity)
PassedPreconditions ==
  /\ ~cfg.dryRun
  /\ \/ script = "CH"
     \/ script = "CAH" /\ chain.owned /\ chain.posLiq > 0

\* C13 (summarize is always reached): no pipeline run that passed its
\* precondition checks ends without the summary, whichever steps failed, were
\* skipped or were gated.
C13_SummaryAlwaysReached ==
  (script \in {"CH", "CAH"} /\ PassedPreconditions /\ pc = "done") => Summarized

\* A precondition of the run does not hold: the wallet does not own the
\* position, or a requested action lacks its configuration
NotOwner == script \in {"CH", "CAH", "BP"} /\ cfg.tokenId /\ ~chain.owned
                /\ "burn" \notin FnsOf(txs)
MissingConfig ==
  /\ script = "CH" /\ cfg.pctGiven
  /\ \/ cfg.compoundPct > 0 /\ ~cfg.tokenId
     \/ cfg.compoundPct < 100 /\ ~cfg.harvestAddress

\* C14 (preconditions before any transaction): ownership of the position and
\* the presence of the configuration a requested action needs are checked
\* before the first mutating call; when a check fails the run aborts having
\* issued no transaction.
C14_PreconditionsFirst ==
  (NotOwner \/ MissingConfig)
  => /\ txs = <<>>
     /\ pc = "done" => exitCode = 1

\* C15 (scenario B, harvest everything): with compoundPct = 0 and a vault
\* address set, the compound step is never invoked and the whole claimed +
\* collected amount of both currencies is routed through a swap to USDC and
\* transferred to the vault (here: in a live run whose transactions all succeed).
C15_HarvestEverything ==
  (script = "CH" /\ cfg.compoundPct = 0 /\ cfg.harvestAddress /\ ~cfg.dryRun
     /\ ch.summary /\ AllOk(txs))
  => /\ "increase" \notin FnsOf(txs) /\ ch.compoundLog = ""
     /\ ch.totalWeth > 0
        => \E i \in 1..Len(txs) : /\ txs[i].fn = "swap" /\ txs[i].tok = "WETH"
                                  /\ txs[i].amt >= ch.totalWeth
     /\ ch.totalToken > 0
        => \E i \in 1..Len(txs) : /\ txs[i].fn \in {"swap", "v4swap"}
                                  /\ txs[i].tok = "TOKEN"
                                  /\ txs[i].amt = ch.totalToken
     /\ "transfer" \in FnsOf(txs) /\ chain.vault > 0

\* The currency and the amount the current swap step of compound-and-harvest
\* hands to swapToUsdc, and what the V4 pool pays for it
SwapStepToken ==
  AddressOf(chain, IF pc = "swap0" THEN chain.c0 ELSE Other(chain.c0))
SwapStepAmount == IF pc = "swap0" THEN cah.harvest0 ELSE cah.harvest1
FirstHopDelta ==
  V4SwapEffect(chain, SwapStepAmount).bal["WETH"] - chain.bal["WETH"]

C17_BelowThresholdReporting ==
  /\ (CH_TotalsComputed /\ CH_BelowMinUsd)
     => (ch.result.belowThreshold /\ pc = "done" /\ exitCode = 0)
  /\ (script = "CH" /\ ch.result.belowThreshold)
     => (cfg.minUsd > 0 /\ CH_BelowMinUsd /\ exitCode = 0)

\* each split amount lies between 0 and its total
SplitWithin(total, c, h) == 0 <= c /\ c <= total /\ 0 <= h /\ h <= total

\* C18 (compound percentage range): in every run the compound percentage the
\* Split step uses and the harvest percentage 100 - compound percentage lie in
\* 0..100, whatever value the flag or the config file supplies, so that no
\* split amount is negative or exceeds its total.
C18_PercentageRange ==
  /\ (script = "CH" /\ ch.split)
     => /\ cfg.compoundPct \in 0..100 /\ harvestPct \in 0..100
        /\ SplitWithin(ch.totalWeth, ch.compoundWeth, ch.harvestWeth)
        /\ SplitWithin(ch.totalToken, ch.compoundToken, ch.harvestToken)
  /\ (script = "CAH" /\ cah.split)
     => /\ compoundPct \in 0..100 /\ (100 - compoundPct) \in 0..100
        /\ SplitWithin(cah.fees0, cah.compound0, cah.harvest0)
        /\ SplitWithin(cah.fees1, cah.compound1, cah.harvest1)

\* C19 (compound without a position is disabled loudly): when the compound
\* percentage is > 0 and no position id is configured, a warning is emitted
\* during the run and the run does not report the compound share as compounded.
C19_CompoundDisabledLoudly ==
  (script = "CH" /\ cfg.compoundPct > 0 /\ ~cfg.tokenId /\ ch.summary)
  => /\ ch.compoundLog # ""
     /\ ch.result.compounded = 0

\* C20 (default compound percentage): when no compound percentage is supplied
\* the harvest pipeline uses 100 if a position id is set and 0 otherwise.
C20_DefaultCompoundPct ==
  (script = "CH" /\ ~cfg.pctGiven /\ ch.split)
  => LET pct == IF cfg.tokenId THEN 100 ELSE 0
     IN /\ cfg.compoundPct = pct
        /\ ch.compoundWeth = SplitCompound(ch.totalWeth, pct)
        /\ ch.harvestWeth = SplitHarvest(ch.totalWeth, pct)

SwapTxs == {i \in 1..Len(txs) : txs[i].fn \in {"swap", "v4swap"}}

\* the output a swap of amountIn is expected to give, reduced by the tolerance
ExpectedMinOut(fn, amountIn, slippage) ==
  LET expected == IF fn = "swap" THEN amountIn * EthPrice
                  ELSE (amountIn * TokenPrice) \div EthPrice
  IN (expected * (100 - slippage)) \div 100

\* C21 (swap slippage tolerance): every swap the harvest scripts issue carries
\* a minimum-output bound derived from the configured slippage percentage: the
\* expected output reduced by that tolerance.
C21_SwapSlippageBound ==
  \A i \in SwapTxs :
    txs[i].minOut = ExpectedMinOut(txs[i].fn, txs[i].amt, cfg.slippage)

\* the claim transactions of the run
ClaimTxs == {i \in 1..Len(txs) : txs[i].fn = "claim"}
AvailRead(tok) ==
  IF script = "CH" THEN (IF tok = "WETH" THEN ch.availWeth ELSE ch.availToken)
  ELSE (IF tok = "WETH" THEN ccf.wethFees ELSE ccf.tokenFees)

\* C22 (no claim for zero): a claim transaction for a token is issued only if
\* the available-fees read for that token in this run returned a strictly
\* positive amount; when both reads return zero no claim is issued; each token
\* is claimed by its own transaction, at most one per token.
C22_NoClaimForZero ==
  /\ \A i \in ClaimTxs :
       /\ txs[i].amt > 0 /\ AvailRead(txs[i].tok) = txs[i].amt
       /\ \A j \in ClaimTxs : txs[j].tok = txs[i].tok => j = i
  /\ (script \in {"CH", "CCF"} /\ AvailRead("WETH") = 0 /\ AvailRead("TOKEN") = 0)
     => ClaimTxs = {}

\* a live run that claimed the token fees and found no WETH fees to claim
C22_Witness ==
  /\ script \in {"CH", "CCF"} /\ pc = "done" /\ ~cfg.dryRun
  /\ \E i \in ClaimTxs : txs[i].tok = "TOKEN" /\ txs[i].st = "ok"
  /\ \A i \in ClaimTxs : txs[i].tok # "WETH"
  /\ chain.fees["WETH"] = 0 /\ chain.fees["TOKEN"] = 0

RetryDone == script \in {"RETRY_CH", "RETRY_CAH"} /\ pc = "done"
RetryCount == IF script = "RETRY_CH" THEN n ELSE maxRetries
RetryBaseDelay == IF script = "RETRY_CH" THEN SleepMs ELSE baseDelayMs

\* C23 (retry bound and backoff): the retry helper invokes the wrapped call at
\* most its retry count (4 in compound-and-harvest, 3 in the harvest pipeline),
\* returns the first success with no further invocation, waits between attempts
\* with a delay that doubles after each failed attempt, and rethrows after the
\* last failed attempt.
C23_RetryBoundAndBackoff ==
  (script \in {"RETRY_CH", "RETRY_CAH"})
  => /\ rt.calls <= RetryCount /\ RetryCount = (IF script = "RETRY_CAH" THEN 4 ELSE 3)
     /\ rt.out = "returned" => rt.calls = Len(rt.errs) + 1 /\ pc = "done"
     /\ \A k \in 1..Len(rt.sleeps) : rt.sleeps[k] = RetryBaseDelay * 2 ^ (k - 1)
     /\ (rt.calls = RetryCount /\ Len(rt.errs) >= RetryCount)
          => rt.out = "thrown" /\ pc = "done"

\* C24 (non-transient errors are not retried): in both scripts an error that is
\* not a transient infrastructure error makes the retry helper rethrow after
\* exactly one invocation of the wrapped call.
C24_NonTransientNotRetried ==
  (RetryDone /\ Len(rt.errs) >= 1 /\ rt.errs[1] = "revert")
  => rt.calls = 1 /\ rt.out = "thrown" /\ rt.sleeps = <<>>

\* every transaction was submitted with none pending, and was waited for
Sequenced(t) ==
  \A i \in 1..Len(t) : t[i].pendingBefore = 0 /\ (t[i].st # "throw" => t[i].waited)

\* the step sent a fee collection that was mined with success
CollectConfirmed ==
  /\ script \in {"CH", "CAH"} /\ pc = "collect" /\ Len(txs') > Len(txs)
  /\ txs'[Len(txs')].fn = "collect" /\ txs'[Len(txs')].st = "ok"

\* C25 (strict sequencing): every mutating call of a run is waited for before
\* any later read or mutating call, so no two transactions are pending at once;
\* the balances read before the collection precede its submission and those
\* read after it follow its confirmation, so the measured fees are what the
\* confirmed collection paid.
C25_StrictSequencing ==
  [][/\ Sequenced(txs')
     /\ (CollectConfirmed /\ script = "CH")
        => /\ ch'.lpWeth = chain.posFees["WETH"]
           /\ ch'.lpToken = chain.posFees["TOKEN"]
     /\ (CollectConfirmed /\ script = "CAH" /\ pc' # "done")
        => /\ cah'.fees0 = chain.posFees[chain.c0]
           /\ cah'.fees1 = chain.posFees[Other(chain.c0)]]_vars

\* a live harvest run whose approvals and collection were each confirmed in
\* turn and whose measure saw the fees the collection paid
C25_Witness ==
  /\ script = "CH" /\ pc = "total" /\ Len(txs) >= 3
  /\ txs[Len(txs)].fn = "collect" /\ txs[Len(txs)].st = "ok"
  /\ ch.lpToken = AmtBig /\ ch.lpWeth = AmtSmall

\* the liquidity calculations of the two pipelines' compound steps
Calcs == {c \in {ch.calc, cah.calc} : c.done /\ ~c.threw}

\* C26 (fresh price for compounding): the pool price used to compute the
\* compound liquidity delta is the price at compound execution time, read after
\* the collection is confirmed, so a price change since the fees were measured
\* is reflected in the liquidity delta.
C26_FreshPrice ==
  \A c \in Calcs :
    /\ c.sqrtPriceX96 = c.priceNow
    /\ c.liquidity = getLiquidityForAmounts(c.priceNow, c.sqrtLower, c.sqrtUpper,
                                            c.amount0, c.amount1)

\* the place of a mutating call in the pipeline; approvals belong to the step
\* that sends them and are not ranked
StepRank(fn) ==
  CASE fn = "claim" -> 1
    [] fn \in {"collect", "burn"} -> 2
    [] fn = "increase" -> 3
    [] fn \in {"swap", "v4swap"} -> 4
    [] fn = "transfer" -> 5
    [] OTHER -> 0
Ranked(t) == {i \in 1..Len(t) : StepRank(t[i].fn) > 0}

\* C27 (step order and skipping): the mutating calls of a run occur in the
\* order claim(s), collect, increase-liquidity, swap(s), vault transfer; a step
\* disabled by configuration (skip-claim; no position id or skip-collection;
\* compound not wanted; harvest not wanted) issues no mutating call, and the
\* later enabled steps still run.
C27_StepOrderAndSkipping ==
  /\ \A i \in Ranked(txs), j \in Ranked(txs) :
       i < j => StepRank(txs[i].fn) <= StepRank(txs[j].fn)
  /\ script = "CH" =>
       /\ cfg.skipClaim => "claim" \notin FnsOf(txs)
       /\ (~cfg.tokenId \/ cfg.skipLp) => "collect" \notin FnsOf(txs)
       /\ ~wantCompound => "increase" \notin FnsOf(txs)
       /\ ~wantHarvest => FnsOf(txs) \cap {"swap", "v4swap", "transfer"} = {}
       /\ (cfg.skipClaim /\ (~cfg.tokenId \/ cfg.skipLp) /\ ~wantHarvest)
            => "approve" \notin FnsOf(txs)
       \* the steps after a skipped one still run
       /\ (cfg.skipClaim /\ CH_CollectSends /\ pc = "total")
            => "collect" \in FnsOf(txs)
       /\ ((cfg.skipClaim \/ cfg.skipLp) /\ wantCompound /\ ~cfg.dryRun /\ pc = "swap"
             /\ (ch.compoundWeth > 0 \/ ch.compoundToken > 0))
            => ch.compoundLog # ""
       /\ (~wantCompound /\ ~cfg.dryRun /\ pc = "transfer" /\ ch.harvestWeth > 0)
            => ch.swapLog # ""

\* a live run with --skip-claim that left the Clanker fees unclaimed and went
\* through collect, compound, swap and transfer in that order
C27_Witness ==
  /\ script = "CH" /\ cfg.skipClaim /\ ch.summary /\ AllOk(txs)
  /\ chain.fees["WETH"] > 0
  /\ \E i, j, k, l \in 1..Len(txs) :
       /\ i < j /\ j < k /\ k < l
       /\ txs[i].fn = "collect" /\ txs[j].fn = "increase"
       /\ txs[k].fn = "swap" /\ txs[l].fn = "transfer"

\* C28 (zero-liquidity collection is a no-op): when the position's liquidity is
\* zero the collection step issues no transaction, neither an approval nor the
\* collect call, reports zero collected for both currencies, and the run does
\* not fail because of it.
C28_ZeroLiquidityCollectNoOp ==
  (script \in {"CH", "CAH"} /\ cfg.tokenId /\ chain.posLiq = 0
     /\ "increase" \notin FnsOf(txs) /\ "claim" \notin FnsOf(txs))
  => /\ "collect" \notin FnsOf(txs)
     /\ (pc \in {"collect", "total"} => "approve" \notin FnsOf(txs))
     /\ (script = "CH" => ch.lpWeth = 0 /\ ch.lpToken = 0)
     /\ (script = "CAH" => cah.fees0 = 0 /\ cah.fees1 = 0)
     /\ (pc \in {"collect", "total"} => exitCode # 1)

\* compound-and-harvest stops before its collection when the liquidity is zero
C28_CAH_ZeroLiquidityExit ==
  script = "CAH" /\ chain.owned /\ chain.posLiq = 0 /\ pc = "done"
  /\ exitCode = 0 /\ txs = <<>>

Gain(tok) == chain'.bal[AddressOf(chain, tok)] - chain.bal[AddressOf(chain, tok)]

\* C29 (measurement by balance delta): the amount credited to the run for each
\* mutating call that brings funds into the wallet (each claim, the collection,
\* each swap) is the wallet balance after the confirmed transaction minus the
\* balance before it, never the amount a view call announced.
C29_MeasuredByBalanceDelta ==
  [][/\ (script = "CH" /\ pc = "claimToken")
          => ch'.claimedToken - ch.claimedToken = Gain("TOKEN")
     /\ (script = "CH" /\ pc = "claimWeth")
          => ch'.claimedWeth - ch.claimedWeth = Gain("WETH")
     /\ (script = "CH" /\ pc = "collect")
          => (ch'.lpWeth = Gain("WETH") /\ ch'.lpToken = Gain("TOKEN"))
     /\ (script = "CAH" /\ pc = "collect")
          => (cah'.fees0 = Gain(chain.c0) /\ cah'.fees1 = Gain(Other(chain.c0)))
     /\ (script = "CH" /\ pc = "swap")
          => ch'.harvestedUsdc = Gain("USDC")]_vars

\* the successful increase-liquidity calls of the run
IncreasesOk == {i \in 1..Len(txs) : txs[i].fn = "increase" /\ txs[i].st = "ok"}

\* C30 (result faithfulness): the result of a pipeline run reports as harvested
\* the amount actually transferred to the vault in this run and as compounded
\* what was actually added to the position; each is 0 when the step was
\* skipped, gated, run in dry-run or failed.
C30_ResultFaithfulness ==
  (script = "CH" /\ ch.result.set)
  => /\ ch.result.harvested = chain.vault
     /\ (IncreasesOk = {} => ch.result.compounded = 0)
     /\ (IncreasesOk # {} => ch.result.compounded > 0)

\* the calls that come after the totals
LaterFns == {"increase", "swap", "v4swap", "transfer"}

\* C31 (zero fees is a success): when the total of claimed and collected
\* amounts is zero for both currencies the run ends normally with a success
\* status and issues no compound, swap or transfer transaction.
C31_ZeroFeesIsSuccess ==
  /\ (CH_TotalsComputed /\ ch.totalWeth = 0 /\ ch.totalToken = 0)
     => (pc = "done" /\ exitCode = 0 /\ FnsOf(txs) \cap LaterFns = {})
  /\ (script = "CAH" /\ pc # "collect" /\ cah.fees0 <= 0 /\ cah.fees1 <= 0
        /\ \E i \in 1..Len(txs) : txs[i].fn = "collect" /\ txs[i].st = "ok")
     => (pc = "done" /\ exitCode = 0 /\ FnsOf(txs) \cap LaterFns = {})

\* a live harvest run that claimed nothing and collected nothing from its position
C31_Witness ==
  /\ script = "CH" /\ ~cfg.dryRun /\ cfg.tokenId /\ ch.result.set
  /\ ch.totalWeth = 0 /\ ch.totalToken = 0
  /\ \E i \in 1..Len(txs) : txs[i].fn = "collect" /\ txs[i].st = "ok"

\* the maximum the running script's increase-liquidity action carries for an
\* amount when it is started with --slippage s; addLiquidity of
\* compound-and-harvest is not given the slippage
IncreaseMax(amount, s) ==
  IF script = "CH" THEN AmountMaxAt(amount, s) ELSE AddAmountMax(amount)
SlippageSettings == {1, 3}

\* C32 (compound slippage buffer): the maxima the increase-liquidity action may
\* consume are the amounts scaled by one multiplier derived from the configured
\* slippage percentage: amountMax >= amount, amountMax = 0 when amount = 0, and
\* a different slippage setting gives a different bound (on amounts large
\* enough for the integer division to show it).
C32_CompoundSlippageBuffer ==
  \A c \in Calcs : \A a \in {c.amount0, c.amount1} :
    /\ IncreaseMax(a, cfg.slippage) >= a
    /\ (a = 0 => IncreaseMax(a, cfg.slippage) = 0)
    /\ (a >= AmtBig \div 2)
         => \A s1 \in SlippageSettings, s2 \in SlippageSettings :
              s1 # s2 => IncreaseMax(a, s1) # IncreaseMax(a, s2)

\* C33 (position liquidity frame): across a pipeline run the position's
\* liquidity changes only through the compound step's increase-liquidity
\* transaction, by the liquidity that transaction adds; claim, collect, swap
\* and transfer leave it unchanged, and so does a step of a run in which
\* compounding is disabled, skipped, a dry run or failed.
C33_LiquidityFrame ==
  [][(script \in {"CH", "CAH", "CCF"}) =>
       /\ (chain'.posLiq # chain.posLiq)
            => /\ pc = "compound" /\ ~cfg.dryRun /\ Len(txs') > Len(txs)
               /\ txs'[Len(txs')].fn = "increase" /\ txs'[Len(txs')].st = "ok"
               /\ chain'.posLiq = chain.posLiq + txs'[Len(txs')].amt
               /\ txs'[Len(txs')].amt > 0
       /\ (script = "CH" /\ ~wantCompound) => chain'.posLiq = chain.posLiq]_vars

\* a live run whose claim, collect, increase, swap and transfer all succeeded:
\* the liquidity is the initial one plus what the increase added
C33_Witness ==
  /\ script = "CH" /\ ch.summary /\ AllOk(txs)
  /\ {"claim", "collect", "increase", "swap", "transfer"} \subseteq FnsOf(txs)
  /\ \E i \in IncreasesOk : chain.posLiq = AmtSmall + txs[i].amt

\* what the two instances measured and what their transactions paid
PairMeasured(tok) ==
  IF tok = "WETH" THEN inst[1].lpWeth + inst[2].lpWeth
  ELSE inst[1].lpToken + inst[2].lpToken
PairPaid(tok) ==
  IF tok = "WETH" THEN inst[1].paidWeth + inst[2].paidWeth
  ELSE inst[1].paidToken + inst[2].paidToken
PairDone == script = "PAIR" /\ \A i \in Instances : inst[i].pc = "done"

\* instance i went from its snapshot to its measure while the other one was
\* either not started or finished
RanAlone(i) ==
  /\ inst[i].pc = "measure" /\ inst'[i].pc = "done"
  /\ \A j \in Instances \ {i} :
       inst[j].pc = inst[i].otherAt /\ inst[j].pc \in {"snapshot", "done"}

\* C34 (single instance per wallet): when one pipeline instance runs against a
\* wallet, every measured balance delta equals the amount the measured
\* transaction paid to the wallet; two instances running at once never measure
\* less than they were paid, and can measure more (C34_Witness).
C34_SingleInstanceDelta ==
  [][/\ (script = "CH" /\ pc = "collect")
          => (ch'.lpWeth = Gain("WETH") /\ ch'.lpToken = Gain("TOKEN"))
     /\ (script = "CAH" /\ pc = "collect")
          => (cah'.fees0 = Gain(chain.c0) /\ cah'.fees1 = Gain(Other(chain.c0)))
     /\ (script = "PAIR")
          => \A i \in Instances :
               /\ inst'[i].lpWeth >= 0 /\ inst'[i].lpToken >= 0
               /\ RanAlone(i) => /\ inst'[i].lpWeth = inst'[i].paidWeth
                                 /\ inst'[i].lpToken = inst'[i].paidToken
               /\ inst'[i].pc = "done"
                    => /\ inst'[i].lpWeth >= inst'[i].paidWeth
                       /\ inst'[i].lpToken >= inst'[i].paidToken]_vars

\* two instances at once: both took their snapshot before either collected, so
\* the fees one collection paid are measured by both and the two runs together
\* allocate more than the wallet received
C34_Witness ==
  /\ PairDone
  /\ PairMeasured("TOKEN") > PairPaid("TOKEN")
  /\ PairPaid("TOKEN") = chain.bal["TOKEN"]
  /\ PairMeasured("TOKEN") = 2 * AmtBig

\* C35 (leftovers are retryable): the settlement asset a failed vault transfer
\* left in the wallet is picked up by the next run with the same configuration
\* and ends up transferred to the vault: after that run succeeded, the wallet
\* holds no more USDC than before the first run.
C35_LeftoversRetryable ==
  (script \in {"CH", "CAH"} /\ FollowsFailedTransfer /\ pc = "done"
     /\ exitCode = 0 /\ AllOk(txs))
  => /\ chain.bal["USDC"] <= UsdcInit
     /\ chain.vault >= dry.harvestedUsdc

\* C36 (no over-allocation): in every live run and for each currency the total
\* the Split step divides never exceeds what the wallet received from this
\* run's confirmed claim and collect transactions (the wallet held none of
\* either currency before the run, so that is its balance at the Split); a
\* claim or collect mined with a reverted status contributes 0.
C36_NoOverAllocation ==
  /\ (script = "CH" /\ ch.split /\ ~cfg.dryRun /\ pc = "compound"
        /\ ~FollowsFailedTransfer)
     => /\ ch.totalWeth <= chain.bal["WETH"]
        /\ ch.totalToken <= chain.bal["TOKEN"]
  /\ (script = "CAH" /\ cah.split /\ pc = "compound" /\ ~FollowsFailedTransfer)
     => /\ cah.fees0 <= chain.bal[AddressOf(chain, chain.c0)]
        /\ cah.fees1 <= chain.bal[AddressOf(chain, Other(chain.c0))]

\* C37 (harvest share survives compounding): a compound transaction that
\* succeeded consumed of each currency no more than the compound share the
\* Split step computed, so the harvest share of this run's fees is still in the
\* wallet for the Swap step.
Consumed0(c) == Used0(c.liquidity, c.priceNow, c.sqrtLower, c.sqrtUpper)
Consumed1(c) == Used1(c.liquidity, c.priceNow, c.sqrtLower, c.sqrtUpper)
C37_HarvestShareSurvives ==
  (IncreasesOk # {})
  => \A c \in Calcs : Consumed0(c) <= c.amount0 /\ Consumed1(c) <= c.amount1

\* C38 (settlement-asset pool currency): a compound-and-harvest run on a
\* position one of whose currencies is USDC, which collected fees, got past the
\* compound step and had every transaction succeed, ends with status 0 and with
\* at least the USDC harvest share in the vault.
UsdcShare == IF AddressOf(chain, chain.c0) = "USDC" THEN cah.harvest0 ELSE cah.harvest1
PastCompound ==
  \/ cah.compound0 <= 0 /\ cah.compound1 <= 0
  \/ ~getLiquidityForAmountsThrows(cah.sqrtPriceX96, cah.sqrtLower, cah.sqrtUpper)
C38_UsdcCurrencyHarvested ==
  (script = "CAH" /\ chain.tokenIsUsdc /\ pc = "done" /\ cah.split
     /\ UsdcShare > 0 /\ PastCompound /\ AllOk(txs))
  => /\ exitCode = 0
     /\ chain.vault >= UsdcShare

\* C39 (audit-only changes nothing): without --fix no step of the security
\* audit changes the permissions of any file; with --fix a step changes the
\* permissions only of a file that failed the permission check of that step,
\* and records that check once, as FIXED and not as FAIL; the counters agree
\* with the recorded checks, and the exit status is non-zero exactly when at
\* least one check was recorded as FAIL.
NewChecks == {k \in 1..Len(au'.checks) : k > Len(au.checks)}
FailsCheck(f) ==
  \/ /\ pc = "start" /\ CredentialList[au.i].path = f /\ au.fs[f].exists
     /\ au.fs[f].mode > CredentialList[au.i].mode
  \/ pc = "worldReadable" /\ IsFound(f)
CountOf(status) == Cardinality({k \in 1..Len(au.checks) : au.checks[k].status = status})
C39_AuditOnlyChangesNothing ==
  /\ [][script = "AUDIT"
          => /\ ~au.fix => au'.fs = au.fs
             /\ \A f \in AuditFiles :
                  au'.fs[f] # au.fs[f]
                  => /\ au.fix /\ FailsCheck(f)
                     /\ \A k \in NewChecks :
                          au'.checks[k].file = f => au'.checks[k].status = "FIXED"
                     /\ Cardinality({k \in NewChecks : au'.checks[k].file = f}) = 1
                     /\ au'.results.fixed >= au.results.fixed + 1
                     /\ au'.results.fail <=
                          au.results.fail + Cardinality(NewChecks) - 1]_vars
  /\ [](script = "AUDIT"
          => /\ au.results.fail = CountOf("FAIL")
             /\ au.results.fixed = CountOf("FIXED")
             /\ (pc = "done" => (exitCode # 0 <=> CountOf("FAIL") > 0)))
C39_Witness ==
  /\ script = "AUDIT" /\ pc = "done" /\ au.fix
  /\ au.results.fixed = 2 /\ au.results.fail = 1 /\ exitCode = 1
  /\ au.fs["wallet.env"].mode = Octal(6, 0, 0)
  /\ au.fs["server.pem"].mode = Octal(6, 0, 0)
C39_WitnessAuditOnly ==
  /\ script = "AUDIT" /\ pc = "done" /\ ~au.fix
  /\ au.results.fail = 3 /\ exitCode = 1
  /\ au.fs["wallet.env"].mode = Octal(6, 4, 4)

====
